---- MODULE Spec2Model ----
(***************************************************************************)
(* Model of the recursive web crawler, its caches and the chat layer that  *)
(* drives it (scraper.go, chatbot.go, server.go).                          *)
(*                                                                         *)
(* A URL string is modelled by its parsed form: scheme, host, path         *)
(* segments, query parameters and fragment.  A path is the sequence of the *)
(* segments that follow each "/": "" is <<>>, "/" is <<"">>, "/a" is       *)
(* <<"a">> and "/a/" is <<"a", "">>.  Substring tests on a URL string are  *)
(* made on the tokens of the URL (Substrings).  Time is in half minutes,   *)
(* the unit in which a twenty-fourth of every whole number of hours is a   *)
(* whole number.                                                           *)
(***************************************************************************)
EXTENDS Integers, Sequences, FiniteSets, TLC

\* ---------------------------------------------------------------- bounds
MaxRequests == 2
MaxDepthCfg == 3
MaxPagesCfg == 3
MaxClassified == 2
MaxHoursEnv == 30
MaxDepthEnv == 15
MaxContentLengthCfg == 3

\* ------------------------------------------------------ program constants
Hour == 120
Minute == Hour \div 60
DataFetchInterval == 1 * Hour
DefaultCacheDuration == 24 * Hour
DefaultMemoryCacheDuration == 1 * Hour
DefaultMaxScrapingDepth == 2
DefaultMaxPagesPerSession == 100
DefaultMinTextLength == 10
DefaultMaxContentLength == 10000

\* the goroutines net/http can run handleChat in at one time; the requests
\* that are handled one after the other all run in the first
Handlers == {1, 2}

Requests == {1}

VARIABLES
  env,                \* the environment variables of the process
  cfg,                \* the WebScraper's configuration fields, set by NewWebScraper
  web,                \* the pages the network serves
  now,                \* the clock
  cache,              \* WebScraper.cache: URL -> WebsiteContent
  pdfCache,           \* WebScraper.pdfCache: URL -> PDFContent
  fileCache,          \* WebScraper.fileCache: URL -> FileContent
  disk,               \* scraped_content/: directory name -> content.json
  scrapedUrls,        \* WebScraper.scrapedUrls, the audit log
  visitedUrls,        \* WebScraper.visitedUrls
  scrapedPagesCount,  \* WebScraper.scrapedPagesCount
  websiteData,        \* Chatbot.websiteData
  lastDataFetch,      \* Chatbot.lastDataFetch
  pc,                 \* where each chat request stands
  stack,              \* the link loops a request's crawl is in, innermost last
  content,            \* the WebsiteContent a request's crawl builds or returns
  reply,              \* what handleChat answered to a request
  served,             \* number of chat requests received
  netLog              \* the page GETs issued since the last ClearScrapedUrls

vars == <<env, cfg, web, now, cache, pdfCache, fileCache, disk, scrapedUrls, visitedUrls, scrapedPagesCount,
          websiteData, lastDataFetch, pc, stack, content, reply, served, netLog>>

Nil == [nil |-> TRUE]

\* a request that has no answer yet
NoResponse == <<0, "">>

Range(s) == {s[i] : i \in DOMAIN s}

\* ------------------------------------------------------------ URL strings
URL(scheme, host, path) ==
  [Scheme |-> scheme, Host |-> host, Path |-> path, RawQuery |-> <<>>, Fragment |-> ""]

WithFragment(u, f) == [u EXCEPT !.Fragment = f]

WithQuery(u, q) == [u EXCEPT !.RawQuery = q]

\* strings.ToLower on one token of a URL
LowerTable ==
  [t \in {"GitHub.com", "Alice", "Paper.PDF"} |->
     CASE t = "GitHub.com" -> "github.com"
       [] t = "Alice" -> "alice"
       [] t = "Paper.PDF" -> "paper.pdf"]

LowerTok(t) == IF t \in DOMAIN LowerTable THEN LowerTable[t] ELSE t

\* strings.ToLower on a whole URL string
ToLower(u) ==
  [u EXCEPT !.Host = LowerTok(@),
            !.Path = [i \in DOMAIN @ |-> LowerTok(@[i])],
            !.RawQuery = [i \in DOMAIN @ |-> [k |-> LowerTok(@[i].k), v |-> LowerTok(@[i].v)]],
            !.Fragment = LowerTok(@)]

\* the patterns (other than itself) that occur as substrings of a token
Substrings ==
  [t \in {"www.example.com", "netflix.com", "my-blog", "admin", "login", "style.css", "cv.pdf"} |->
     CASE t = "www.example.com" -> {"example.com"}
       [] t = "netflix.com" -> {"x.com"}
       [] t = "my-blog" -> {"blog"}
       [] t = "admin" -> {"/admin"}
       [] t = "login" -> {"/login"}
       [] t = "style.css" -> {".css"}
       [] t = "cv.pdf" -> {".pdf"}]

SubstringsOf(t) == {t} \cup (IF t \in DOMAIN Substrings THEN Substrings[t] ELSE {})

Tokens(u) ==
  {u.Scheme, u.Host} \cup Range(u.Path)
    \cup {u.RawQuery[i].k : i \in DOMAIN u.RawQuery}
    \cup {u.RawQuery[i].v : i \in DOMAIN u.RawQuery}
    \cup {u.Fragment}

\* strings.Contains(u, pat)
Contains(u, pat) ==
  \/ \E t \in Tokens(u) : pat \in SubstringsOf(t)
  \/ pat = "#" /\ u.Fragment # ""
  \/ pat = "mailto:" /\ u.Scheme = "mailto"
  \/ pat = "tel:" /\ u.Scheme = "tel"
  \/ pat = "javascript:" /\ u.Scheme = "javascript"
  \/ \E i \in DOMAIN u.RawQuery : pat = "?search" /\ i = 1 /\ u.RawQuery[i].k = "search"
  \/ \E i \in DOMAIN u.RawQuery : pat = "?sort" /\ i = 1 /\ u.RawQuery[i].k = "sort"
  \/ \E i \in DOMAIN u.RawQuery : pat = "?filter" /\ i = 1 /\ u.RawQuery[i].k = "filter"

\* strings.HasPrefix(u, "http")
HasPrefixHttp(u) == u.Scheme \in {"http", "https"}

TrackingParams == {"utm_source", "utm_medium", "utm_campaign", "utm_term", "utm_content", "ref", "source"}

\* the order in which url.Values.Encode writes the keys
KeyOrder == <<"page", "ref", "search", "source", "utm_campaign", "utm_source">>

RECURSIVE EncodeFrom(_, _)
EncodeFrom(q, n) ==
  IF n > Len(KeyOrder) THEN <<>>
  ELSE SelectSeq(q, LAMBDA p : p.k = KeyOrder[n]) \o EncodeFrom(q, n + 1)

\* url.Values.Encode: sorted by key, values of one key in their order
Encode(q) == EncodeFrom(q, 1)

TrimTrailingSlash(path) ==
  IF Len(path) > 1 /\ path[Len(path)] = ""
    THEN SubSeq(path, 1, Len(path) - 1)
    ELSE path

normalizeURL(targetUrl) ==
  LET parsedURL == ToLower(targetUrl)
      query == SelectSeq(parsedURL.RawQuery, LAMBDA p : p.k \notin TrackingParams)
  IN [parsedURL EXCEPT !.RawQuery = Encode(query),
                       !.Fragment = "",
                       !.Path = TrimTrailingSlash(@)]

\* strings.TrimPrefix(domain, "www.")
TrimWww(h) == IF h = "www.example.com" THEN "example.com" ELSE h

\* a directory name made of the domain alone
generateSafeDirectoryName_DomainOnly(targetUrl) ==
  [domain |-> TrimWww(targetUrl.Host), pathHash |-> <<>>]

generateSafeDirectoryName(targetUrl) ==
  LET domainSafe == TrimWww(targetUrl.Host)
      rootPath == targetUrl.RawQuery = <<>> /\ targetUrl.Path \in {<<>>, <<"">>}
  IN IF rootPath
       THEN [domain |-> domainSafe, pathHash |-> <<>>]
       ELSE [domain |-> domainSafe, pathHash |-> <<"md5", targetUrl.Path, targetUrl.RawQuery>>]

\* sha256 of the raw bytes of a page
calculateContentHash(htmlContent) == <<"sha256", htmlContent>>

resolveURL(baseURL, linkURL) ==
  IF HasPrefixHttp(linkURL) THEN linkURL
  ELSE IF linkURL.Scheme # "" THEN linkURL
  ELSE [linkURL EXCEPT !.Scheme = baseURL.Scheme, !.Host = baseURL.Host]

ProfessionalDomains ==
  <<"linkedin.com", "github.com", "gitlab.com", "stackoverflow.com",
    "medium.com", "dev.to", "twitter.com", "x.com">>

isProfessionalLink(url) ==
  \E i \in DOMAIN ProfessionalDomains : Contains(ToLower(url), ProfessionalDomains[i])

SkipPatterns ==
  <<"#", "mailto:", "tel:", "javascript:", ".css", ".js", ".ico", ".png", ".jpg",
    ".jpeg", ".gif", ".svg", "/admin", "/login", "/logout", "/cart", "/checkout",
    "?search", "?sort", "?filter">>

isUrlAllowed(targetUrl) ==
  \/ Len(cfg.allowedUrlPatterns) = 0
  \/ \E i \in DOMAIN cfg.allowedUrlPatterns :
        Contains(ToLower(targetUrl), cfg.allowedUrlPatterns[i])

isInternalNavigationLink(fullUrl, linkType) ==
  /\ linkType = "internal"
  /\ isUrlAllowed(fullUrl)
  /\ ~ \E i \in DOMAIN SkipPatterns : Contains(ToLower(fullUrl), SkipPatterns[i])

isSameDomain(url1, url2) ==
  \/ Contains(url1, "github.com") /\ Contains(url2, "github.com")
  \/ Contains(url1, "linkedin.com") /\ Contains(url2, "linkedin.com")

\* a classification that looks for linkedin.com first
determineContentType_LinkedInFirst(url) ==
  LET lowerURL == ToLower(url)
  IN IF Contains(lowerURL, "linkedin.com") THEN "professional"
     ELSE IF Contains(lowerURL, "github.com") \/ Contains(lowerURL, "gitlab.com") THEN "project"
     ELSE IF Contains(lowerURL, "medium.com") \/ Contains(lowerURL, "dev.to")
               \/ Contains(lowerURL, "blog") THEN "blog"
     ELSE IF Contains(lowerURL, "stackoverflow.com") THEN "technical"
     ELSE "general"

determineContentType(url) ==
  LET lowerURL == ToLower(url)
  IN IF Contains(lowerURL, "github.com") \/ Contains(lowerURL, "gitlab.com") THEN "project"
     ELSE IF Contains(lowerURL, "linkedin.com") THEN "professional"
     ELSE IF Contains(lowerURL, "medium.com") \/ Contains(lowerURL, "dev.to")
               \/ Contains(lowerURL, "blog") THEN "blog"
     ELSE IF Contains(lowerURL, "stackoverflow.com") THEN "technical"
     ELSE "general"


\* ------------------------------------------------------ the pages served
RootURL == URL("http", "example.com", <<>>)
GitHub == URL("https", "github.com", <<"alice">>)
GitHubSlash == URL("https", "github.com", <<"alice", "">>)
GitHubUpper == WithFragment(URL("https", "GitHub.com", <<"Alice">>), "readme")
LinkedIn == URL("https", "linkedin.com", <<"in", "alice">>)
Medium == URL("https", "medium.com", <<"@alice">>)
Other == URL("https", "other.org", <<>>)
About == URL("", "", <<"about">>)

\* the page a server answers a URL with: hosts and paths are matched without
\* case, trailing slashes, query and fragment
PageKey(u) ==
  LET l == ToLower(u)
      RECURSIVE Strip(_)
      Strip(path) == IF Len(path) > 0 /\ path[Len(path)] = ""
                       THEN Strip(SubSeq(path, 1, Len(path) - 1))
                       ELSE path
  IN <<TrimWww(l.Host), Strip(l.Path)>>

\* a page has no text in its body, and no Ollama service runs when the
\* crawl comes to it, unless it is said otherwise (WithText)
Page(title, body, links) ==
  [Title |-> title, Body |-> body, Links |-> links, Text |-> <<>>,
   Summarize |-> "unavailable"]

\* A text is the sequence of its bytes in UTF-8: "x" is a letter of one
\* byte, "e1" and "e2" are the two bytes of an accented letter, "r1", "r2"
\* and "r3" the three bytes of the replacement character U+FFFD.
\* a text of n letters of one byte
TextOfLen(n) == [i \in 1..n |-> "x"]

\* a text of n letters of which the last but one is accented
AccentedText(n) == TextOfLen(n - 2) \o <<"e1", "e2", "x">>

\* the page with the body text given, for which the Ollama service does as
\* outcome says when the crawl comes to the page
WithText(page, text, outcome) == [page EXCEPT !.Text = text, !.Summarize = outcome]

\* A -> B -> A and B -> C -> B
GCycle ==
  (PageKey(RootURL) :> Page("A", "bytesA", <<GitHub>>))
  @@ (PageKey(GitHub) :> Page("B", "bytesB", <<RootURL, LinkedIn>>))
  @@ (PageKey(LinkedIn) :> Page("C", "bytesC", <<GitHubUpper, RootURL>>))

\* A -> B -> C -> D
GChain ==
  (PageKey(RootURL) :> Page("A", "bytesA", <<GitHub>>))
  @@ (PageKey(GitHub) :> Page("B", "bytesB", <<LinkedIn>>))
  @@ (PageKey(LinkedIn) :> Page("C", "bytesC", <<Medium>>))
  @@ (PageKey(Medium) :> Page("D", "bytesD", <<>>))

\* a root page with several links, two of them with one normalized URL, two
\* to pages that are served with the same bytes, one to a page that is no
\* professional profile and one internal link
GFan ==
  (PageKey(RootURL) :> Page("A", "bytesA", <<GitHubSlash, GitHubUpper, LinkedIn, Other, About, Medium>>))
  @@ (PageKey(GitHub) :> Page("B", "bytesB", <<>>))
  @@ (PageKey(LinkedIn) :> Page("B", "bytesB", <<>>))
  @@ (PageKey(Medium) :> Page("D", "bytesD", <<Other>>))
  @@ (PageKey(Other) :> Page("E", "bytesE", <<>>))
  @@ (PageKey(resolveURL(RootURL, About)) :> Page("F", "bytesF", <<>>))

Webs == {GCycle, GChain, GFan}

\* ------------------------------------------------------------- records
\* content.Links as scrapeWebsiteWithDepth collects them from a[href]
ExtractLinks(page) ==
  [i \in DOMAIN page.Links |->
     [URL |-> page.Links[i],
      Type |-> IF HasPrefixHttp(page.Links[i]) THEN "external" ELSE "internal"]]

WebsiteContent(title, links, hash, time) ==
  [Title |-> title, Text |-> <<>>, Links |-> links, PDFContent |-> <<>>,
   FileContent |-> <<>>,
   LinkedContent |-> <<>>, LastUpdated |-> time, ContentHash |-> hash]

LinkedPageContent(url, title, hash, time) ==
  [URL |-> url, Title |-> title, Text |-> <<>>, ContentType |-> determineContentType(url),
   Relevance |-> 0, FirstLevelLinks |-> <<>>, LastUpdated |-> time, ContentHash |-> hash]

ScrapedUrl(url, urlType, title, success, err, contentType) ==
  [URL |-> url, Type |-> urlType, Title |-> title, Success |-> success,
   Error |-> err, ScrapedAt |-> now, Relevance |-> 0, ContentType |-> contentType]

\* the content.json wrapper
DiskEntry(url, c) == [URL |-> url, SavedAt |-> now, Content |-> c]

\* ------------------------------------------------------- configuration
\* NewWebScraper: the values the environment variables can give the fields
AllowedPatternChoices == {<<>>, <<"example.com", "github.com", "medium.com">>, <<"github.com">>}

\* an environment variable: not set (os.Getenv gives ""), set to a text that
\* is no number, or set to the decimal text of an integer
EnvUnset == [kind |-> "unset"]
EnvText == [kind |-> "text"]
EnvInt(n) == [kind |-> "int", n |-> n]

\* strconv.Atoi
Atoi(v) == [ok |-> v.kind = "int", n |-> IF v.kind = "int" THEN v.n ELSE 0]

\* a memory-cache duration without the floor of 15 minutes
memoryCacheDurationOf_NoFloor(cacheDuration) ==
  IF cacheDuration < 24 * Hour THEN cacheDuration \div 24 ELSE DefaultMemoryCacheDuration

memoryCacheDurationOf(cacheDuration) ==
  IF cacheDuration < 24 * Hour
    THEN (IF cacheDuration \div 24 < 15 * Minute THEN 15 * Minute ELSE cacheDuration \div 24)
    ELSE DefaultMemoryCacheDuration

\* the patterns of ALLOWED_SCRAPING_URL_PATTERNS, split at the commas and
\* trimmed: the empty ones are dropped and the others lower-cased
parsePatterns(patterns) ==
  LET kept == SelectSeq(patterns, LAMBDA p : p # "")
  IN [i \in DOMAIN kept |-> LowerTok(kept[i])]

maxScrapingDepthOf(v) ==
  IF v.kind # "unset" /\ Atoi(v).ok /\ Atoi(v).n >= 1 /\ Atoi(v).n <= 10
    THEN Atoi(v).n ELSE DefaultMaxScrapingDepth

maxPagesPerSessionOf(v) ==
  IF v.kind # "unset" /\ Atoi(v).ok /\ Atoi(v).n > 0
    THEN Atoi(v).n ELSE DefaultMaxPagesPerSession

minTextLengthOf(v) ==
  IF v.kind # "unset" /\ Atoi(v).ok /\ Atoi(v).n > 0
    THEN Atoi(v).n ELSE DefaultMinTextLength

maxContentLengthOf(v, minTextLength) ==
  IF v.kind # "unset" /\ Atoi(v).ok /\ Atoi(v).n > minTextLength
    THEN Atoi(v).n ELSE DefaultMaxContentLength

cacheDurationOf(v) ==
  IF v.kind # "unset" /\ Atoi(v).ok /\ Atoi(v).n > 0
    THEN Atoi(v).n * Hour ELSE DefaultCacheDuration

\* the configuration fields NewWebScraper computes from the environment
NewWebScraper(e) ==
  [allowedUrlPatterns |-> parsePatterns(e.ALLOWED_SCRAPING_URL_PATTERNS),
   enableInternalLinks |-> LowerTok(e.ENABLE_INTERNAL_LINK_SCRAPING) = "true",
   refreshContent |-> LowerTok(e.REFRESH_CONTENT) = "true",
   minTextLength |-> minTextLengthOf(e.MIN_TEXT_LENGTH),
   maxContentLength |-> maxContentLengthOf(e.MAX_CONTENT_LENGTH,
                                           minTextLengthOf(e.MIN_TEXT_LENGTH)),
   maxScrapingDepth |-> maxScrapingDepthOf(e.MAX_SCRAPING_DEPTH),
   maxPagesPerSession |-> maxPagesPerSessionOf(e.MAX_PAGES_PER_SESSION),
   cacheDuration |-> cacheDurationOf(e.CACHE_DURATION_HOURS),
   memoryCacheDuration |-> memoryCacheDurationOf(cacheDurationOf(e.CACHE_DURATION_HOURS))]

\* the environments the crawls are checked in: the filter, the two toggles,
\* the two limits and the text lengths are set, the cache duration is left
\* at its default
Envs ==
  [ALLOWED_SCRAPING_URL_PATTERNS : AllowedPatternChoices,
   ENABLE_INTERNAL_LINK_SCRAPING : {"", "true"},
   REFRESH_CONTENT : {"", "true"},
   MIN_TEXT_LENGTH : {EnvInt(1)},
   MAX_CONTENT_LENGTH : {EnvInt(MaxContentLengthCfg)},
   MAX_SCRAPING_DEPTH : {EnvInt(n) : n \in 1..MaxDepthCfg},
   MAX_PAGES_PER_SESSION : {EnvInt(n) : n \in 1..MaxPagesCfg},
   CACHE_DURATION_HOURS : {EnvUnset}]

Configs == {NewWebScraper(e) : e \in Envs}

\* the process read its environment and NewWebScraper built the scraper
Constructed ==
  /\ env \in Envs
  /\ cfg = NewWebScraper(env)

\* what earlier runs of the program can have left in scraped_content/:
\* nothing, or the record of a crawl made an hour before the program
\* started, of the root page as it was then or of a mirror of the root page
OldRecord(w, body) ==
  LET page == w[PageKey(RootURL)]
  IN [URL |-> RootURL, SavedAt |-> 0 - Hour,
      Content |-> WebsiteContent(page.Title, ExtractLinks(page),
                                 calculateContentHash(body), 0 - Hour)]

\* a site that served the bytes of the root page under another URL when an
\* earlier run of the program, started with that URL, crawled it
MirrorURL == URL("https", "example.org", <<>>)

InitialDisks(w) ==
  {<<>>} \cup
  {generateSafeDirectoryName(RootURL) :> OldRecord(w, "bytesOld")} \cup
  {generateSafeDirectoryName(MirrorURL) :>
     [OldRecord(w, w[PageKey(RootURL)].Body) EXCEPT !.URL = MirrorURL]}

\* the internal-navigation toggle is varied for the sites that have links
\* without a scheme
HasInternalLinks(w) ==
  \E k \in DOMAIN w : \E i \in DOMAIN w[k].Links : ~HasPrefixHttp(w[k].Links[i])

\* the fields of WebScraper and Chatbot after NewWebScraper and NewChatbot,
\* and no request received
Start ==
  /\ now = 0
  /\ cache = <<>>
  /\ pdfCache = <<>>
  /\ fileCache = <<>>
  /\ scrapedUrls = <<>>
  /\ visitedUrls = {}
  /\ scrapedPagesCount = 0
  /\ websiteData = Nil
  /\ lastDataFetch = 0
  /\ pc = [r \in Handlers |-> "idle"]
  /\ stack = [r \in Handlers |-> <<>>]
  /\ content = [r \in Handlers |-> Nil]
  /\ reply = [r \in Handlers |-> NoResponse]
  /\ served = 0
  /\ netLog = <<>>

Init ==
  /\ Constructed
  /\ web \in Webs
  /\ cfg.enableInternalLinks => HasInternalLinks(web)
  /\ disk \in InitialDisks(web)
  /\ Start


\* --------------------------------------------------------- the scraper
\* a visited set that takes the URL as it is written
markURLVisited_Raw(targetUrl) == visitedUrls \cup {targetUrl}

markURLVisited(targetUrl) == visitedUrls \cup {normalizeURL(targetUrl)}

\* a visited check that never finds the URL
isURLVisited_Never(targetUrl) == FALSE

isURLVisited(targetUrl) == normalizeURL(targetUrl) \in visitedUrls

\* the page limit tested with <= for <
canScrapeMore_OffByOne == scrapedPagesCount <= cfg.maxPagesPerSession

\* no page limit
canScrapeMore_Always == TRUE

canScrapeMore == scrapedPagesCount < cfg.maxPagesPerSession

\* a counter that counts the root page too
scrapedPagesCountAfter_CountsRoot(urlType) == scrapedPagesCount + 1

\* the page counter after scrapePage let a URL through: it counts the
\* linked pages only
scrapedPagesCountAfter(urlType) ==
  IF urlType = "linked" THEN scrapedPagesCount + 1 ELSE scrapedPagesCount

\* a hash index that finds nothing
findContentByHash_None(contentHash) == {}

\* a content.json that cannot be read or parsed
Corrupt == [corrupt |-> TRUE]

\* the cache directories whose content.json holds a record with this hash;
\* a file that cannot be read or parsed is passed over
findContentByHash(contentHash) ==
  {d \in DOMAIN disk : disk[d] # Corrupt /\ disk[d].Content.ContentHash = contentHash}

\* loadContentFromDisk; Nil stands for its error: no file, or a file that
\* cannot be read or parsed
loadContentFromDisk(targetUrl) ==
  IF /\ generateSafeDirectoryName(targetUrl) \in DOMAIN disk
     /\ disk[generateSafeDirectoryName(targetUrl)] # Corrupt
    THEN disk[generateSafeDirectoryName(targetUrl)].Content
    ELSE Nil

\* the string json.Marshal writes for a Go string and json.Unmarshal reads
\* back: a byte that is no part of a well-formed character is replaced by
\* U+FFFD
RECURSIVE ToValidUTF8(_, _)
ToValidUTF8(text, i) ==
  IF i > Len(text) THEN <<>>
  ELSE IF text[i] = "e1" /\ i < Len(text) /\ text[i + 1] = "e2"
    THEN <<"e1", "e2">> \o ToValidUTF8(text, i + 2)
  ELSE IF text[i] \in {"e1", "e2"}
    THEN <<"r1", "r2", "r3">> \o ToValidUTF8(text, i + 1)
  ELSE <<text[i]>> \o ToValidUTF8(text, i + 1)

\* the record json.Unmarshal gives for the JSON json.MarshalIndent made of c
jsonRoundTrip(c) ==
  [c EXCEPT !.Text = ToValidUTF8(@, 1),
            !.LinkedContent =
               [u \in DOMAIN @ |-> [@[u] EXCEPT !.Text = ToValidUTF8(@, 1)]]]

\* saveContentToDisk; the write can fail, and the file is then left as it was
saveContentToDisk(targetUrl, c, written) ==
  IF written
    THEN (generateSafeDirectoryName(targetUrl) :> DiskEntry(targetUrl, jsonRoundTrip(c))) @@ disk
    ELSE disk

\* a scrapePage that records the limits and the visited URLs like a refusal
ScrapePageGate_LogsCutOff(targetUrl, depth, urlType) ==
  IF depth >= cfg.maxScrapingDepth \/ ~canScrapeMore THEN "disallowed"
  ELSE IF urlType = "linked" /\ isURLVisited(targetUrl) THEN "disallowed"
  ELSE IF ~isUrlAllowed(targetUrl) THEN "disallowed"
  ELSE "fetch"

\* the depth limit of scrapePage one level too low
ScrapePageGate_Shallow(targetUrl, depth, urlType) ==
  IF depth + 1 >= cfg.maxScrapingDepth \/ ~canScrapeMore THEN "limits"
  ELSE IF urlType = "linked" /\ isURLVisited(targetUrl) THEN "visited"
  ELSE IF ~isUrlAllowed(targetUrl) THEN "disallowed"
  ELSE "fetch"

\* the depth limit of scrapePage tested with > for >=
ScrapePageGate_Deep(targetUrl, depth, urlType) ==
  IF depth > cfg.maxScrapingDepth \/ ~canScrapeMore THEN "limits"
  ELSE IF urlType = "linked" /\ isURLVisited(targetUrl) THEN "visited"
  ELSE IF ~isUrlAllowed(targetUrl) THEN "disallowed"
  ELSE "fetch"

\* the checks of scrapePage that come before the request is sent
ScrapePageGate(targetUrl, depth, urlType) ==
  IF depth >= cfg.maxScrapingDepth \/ ~canScrapeMore THEN "limits"
  ELSE IF urlType = "linked" /\ isURLVisited(targetUrl) THEN "visited"
  ELSE IF ~isUrlAllowed(targetUrl) THEN "disallowed"
  ELSE "fetch"

\* the outcomes the GET of scrapePage can have: an error (network, timeout,
\* status, body, parse) at any URL, a document where a page is served
FetchOutcomes(targetUrl) ==
  {FALSE} \cup (IF PageKey(targetUrl) \in DOMAIN web THEN {TRUE} ELSE {})

\* ---- documents
\* filepath.Ext of the last segment of a path, in lower case
ExtTable ==
  [t \in {"cv.pdf", "paper.pdf", "skills.docx", "style.css"} |->
     CASE t = "cv.pdf" -> ".pdf"
       [] t = "paper.pdf" -> ".pdf"
       [] t = "skills.docx" -> ".docx"
       [] t = "style.css" -> ".css"]

PathExt(u) ==
  IF Len(u.Path) > 0 /\ LowerTok(u.Path[Len(u.Path)]) \in DOMAIN ExtTable
    THEN ExtTable[LowerTok(u.Path[Len(u.Path)])]
    ELSE ""

\* PDFExtractor.isValidPDFURL
isPDFLink(url) == PathExt(url) = ".pdf"

\* FileParser.isValidFileURL
isFileLink(url) == PathExt(url) \in {".xlsx", ".docx", ".csv"}

\* what ExtractFromURL and ParseFromURL return when they succeed
PDFContent(url) == [Title |-> "pdf", LastUpdated |-> now]

FileContent(url) ==
  [FileName |-> url.Path[Len(url.Path)], FileType |-> PathExt(url), LastUpdated |-> now]

\* the audit entries, the document map of the record and the document cache
\* while processPDFs or processFiles goes through the links
DocState(log, docs, docCache) == [log |-> log, docs |-> docs, docCache |-> docCache]

\* a loop over the links that ends at the first document that fails
RECURSIVE processPDFs_StopAtError(_, _, _, _, _)
processPDFs_StopAtError(links, i, baseURL, failed, st) ==
  IF i > Len(links) THEN st
  ELSE LET link == links[i]
           fullURL == resolveURL(baseURL, link.URL)
           pdfContent == PDFContent(fullURL)
       IN IF ~isPDFLink(link.URL)
            THEN processPDFs_StopAtError(links, i + 1, baseURL, failed, st)
          ELSE IF /\ fullURL \in DOMAIN st.docCache
                  /\ now - st.docCache[fullURL].LastUpdated < cfg.cacheDuration
            THEN processPDFs_StopAtError(links, i + 1, baseURL, failed,
                   [st EXCEPT !.docs = (link.URL :> st.docCache[fullURL]) @@ @])
          ELSE IF i \in failed
            THEN [st EXCEPT !.log = Append(@,
                    ScrapedUrl(fullURL, "pdf", "", FALSE, "extraction failed", "pdf"))]
          ELSE processPDFs_StopAtError(links, i + 1, baseURL, failed,
                 [st EXCEPT !.log = Append(@,
                             ScrapedUrl(fullURL, "pdf", pdfContent.Title, TRUE, "", "pdf")),
                           !.docCache = (fullURL :> pdfContent) @@ @,
                           !.docs = (link.URL :> pdfContent) @@ @])

\* processPDFs from link i on; failed holds the links whose extraction fails
RECURSIVE processPDFs(_, _, _, _, _)
processPDFs(links, i, baseURL, failed, st) ==
  IF i > Len(links) THEN st
  ELSE LET link == links[i]
           fullURL == resolveURL(baseURL, link.URL)
           pdfContent == PDFContent(fullURL)
       IN processPDFs(links, i + 1, baseURL, failed,
            IF ~isPDFLink(link.URL) THEN st
            ELSE IF /\ fullURL \in DOMAIN st.docCache
                    /\ now - st.docCache[fullURL].LastUpdated < cfg.cacheDuration
              THEN [st EXCEPT !.docs = (link.URL :> st.docCache[fullURL]) @@ @]
            ELSE IF i \in failed
              THEN [st EXCEPT !.log = Append(@,
                      ScrapedUrl(fullURL, "pdf", "", FALSE, "extraction failed", "pdf"))]
            ELSE [st EXCEPT !.log = Append(@,
                             ScrapedUrl(fullURL, "pdf", pdfContent.Title, TRUE, "", "pdf")),
                           !.docCache = (fullURL :> pdfContent) @@ @,
                           !.docs = (link.URL :> pdfContent) @@ @])

\* processFiles from link i on
RECURSIVE processFiles(_, _, _, _, _)
processFiles(links, i, baseURL, failed, st) ==
  IF i > Len(links) THEN st
  ELSE LET link == links[i]
           fullURL == resolveURL(baseURL, link.URL)
           fileContent == FileContent(fullURL)
       IN processFiles(links, i + 1, baseURL, failed,
            IF ~isFileLink(link.URL) THEN st
            ELSE IF /\ fullURL \in DOMAIN st.docCache
                    /\ now - st.docCache[fullURL].LastUpdated < cfg.cacheDuration
              THEN [st EXCEPT !.docs = (link.URL :> st.docCache[fullURL]) @@ @]
            ELSE IF i \in failed
              THEN [st EXCEPT !.log = Append(@,
                      ScrapedUrl(fullURL, "file", "", FALSE, "parse failed", "file"))]
            ELSE [st EXCEPT !.log = Append(@,
                             ScrapedUrl(fullURL, "file", fileContent.FileName, TRUE, "",
                                        fileContent.FileType)),
                           !.docCache = (fullURL :> fileContent) @@ @,
                           !.docs = (link.URL :> fileContent) @@ @])

PDFLinks(links) == {i \in DOMAIN links : isPDFLink(links[i].URL)}

FileLinks(links) == {i \in DOMAIN links : isFileLink(links[i].URL)}

\* ---- the text of a page
\* what SummarizeContent can do with the text of a page: the service is nil
\* or IsEnabled is false, the call returns an error, or it returns a summary
SummarizeOutcomes == {"unavailable", "error", "ok"}

\* a summary the Ollama service returns
Summary == [i \in 1..(MaxContentLengthCfg + 4) |-> "s"]

\* fullText[:maxContentLength] + "..." for a text of more than
\* maxContentLength bytes
Truncate(fullText) ==
  IF Len(fullText) > cfg.maxContentLength
    THEN SubSeq(fullText, 1, cfg.maxContentLength) \o <<".", ".", ".">>
    ELSE fullText

\* content.Text and linkedContent.Text: the summary when the service is
\* there, the text is not empty and the call succeeds, the text cut to
\* maxContentLength otherwise
contentText(page) ==
  IF page.Summarize # "unavailable" /\ page.Text # <<>>
    THEN (IF page.Summarize = "ok" THEN Summary ELSE Truncate(page.Text))
    ELSE Truncate(page.Text)

Frame(kind, url, depth, links, lc) ==
  [kind |-> kind, url |-> url, depth |-> depth, links |-> links, i |-> 1,
   pending |-> Nil, lc |-> lc]

Top(r) == stack[r][Len(stack[r])]

SetTop(r, f) == [stack EXCEPT ![r][Len(stack[r])] = f]

Advance(f) == [f EXCEPT !.i = @ + 1, !.pending = Nil]

\* one GET of scrapePage: the URL, the depth it was asked at, the page whose
\* link loop asked for it and whether a document came back
GetLog(url, urlType, depth, parent, ok) ==
  [URL |-> url, Type |-> urlType, depth |-> depth, parent |-> parent, ok |-> ok]

\* a cache entry taken for fresh whatever its age
IsFresh_Always(lastUpdated, duration) == TRUE

\* time.Since(lastUpdated) < duration
IsFresh(lastUpdated, duration) == now - lastUpdated < duration

\* whether scrapeLinkedPageWithDepthAndContent(depth) runs its own link loop
CanNest(depth) == depth + 1 < cfg.maxScrapingDepth /\ canScrapeMore

\* a link loop that ends at the first error
AfterLinkError_Abort(f) == [f EXCEPT !.i = Len(f.links) + 1, !.pending = Nil]

\* a link loop after scrapeLinkedPageWithDepthAndContent returned an error:
\* the error is logged and the loop goes on with the next link
AfterLinkError(f) == Advance(f)

\* ---------------------------------------------------------- chat layer
\* what the calls of the Ollama service can give: the service is nil or
\* IsEnabled is false, GenerateIntelligentResponse returns an error, or it
\* returns a text
OllamaOutcomes == {"unavailable", "error", "ok"}

\* the canned text getRuleBasedResponse picks for the message
getRuleBasedResponse == "rule-based response"

\* a chat layer that passes the failure of the Ollama service on
generateResponse_NoFallback(ollama) ==
  IF ollama = "ok" THEN "Ollama response" ELSE "Ollama service error"

generateResponse(ollama) ==
  IF ollama = "ok" THEN "Ollama response" ELSE getRuleBasedResponse

\* ProcessMessage once the website data is there: generateResponse gives
\* the text of the answer and handleChat writes it with status 200
ChatResponse(ollama) == <<200, generateResponse(ollama)>>

\* handleChat when ProcessMessage returned an error
ErrorResponse == <<500, "Failed to process message">>

\* a reset that forgets the page counter
ClearScrapedUrls_KeepsCount ==
  /\ scrapedUrls' = <<>>
  /\ visitedUrls' = {}
  /\ scrapedPagesCount' = scrapedPagesCount

\* ClearScrapedUrls: the audit log, the visited set and the page counter
ClearScrapedUrls ==
  /\ scrapedUrls' = <<>>
  /\ visitedUrls' = {}
  /\ scrapedPagesCount' = 0

\* the time that passes before the next message: half an hour or 25 hours
\* after the last one was answered, within the minute when it arrives while
\* another is being handled (the client timeouts bound a crawl)
Delays == IF \E q \in Handlers : pc[q] # "idle" THEN {0} ELSE {30 * Minute, 25 * Hour}

\* a chatbot that takes the data it holds for old whatever their age
DataIsFresh_Never(time) == FALSE

\* refreshWebsiteData: there are data and they were fetched less than an
\* hour before time
DataIsFresh(time) == websiteData # Nil /\ time - lastDataFetch < DataFetchInterval

\* handleChat -> ProcessMessage -> refreshWebsiteData, up to the call of
\* ScrapeWebsite: with data younger than an hour the message is answered from
\* it, otherwise a new session starts
ReceiveMessageAfter(r, delay) ==
  /\ pc[r] = "idle"
  /\ served < MaxRequests
  /\ served' = served + 1
  /\ now' = now + delay
  /\ IF DataIsFresh(now')
       THEN /\ \E ollama \in OllamaOutcomes :
                 reply' = [reply EXCEPT ![r] = ChatResponse(ollama)]
            /\ UNCHANGED <<pc, scrapedUrls, visitedUrls, scrapedPagesCount, netLog>>
       ELSE /\ ClearScrapedUrls
            /\ netLog' = <<>>
            /\ reply' = [reply EXCEPT ![r] = NoResponse]
            /\ pc' = [pc EXCEPT ![r] = "scrape"]
  /\ UNCHANGED <<env, cfg, web, pdfCache, fileCache, cache, disk, websiteData, lastDataFetch,
                 stack, content>>

ReceiveMessage(r) == \E delay \in Delays : ReceiveMessageAfter(r, delay)

\* scrapeWebsiteWithDepth up to the call of scrapePage: the two caches
ScrapeWebsite(r) ==
  LET targetUrl == RootURL
      diskContent == loadContentFromDisk(targetUrl)
      diskHit == /\ ~cfg.refreshContent
                 /\ diskContent # Nil
                 /\ IsFresh(diskContent.LastUpdated, cfg.cacheDuration)
      memHit == /\ targetUrl \in DOMAIN cache
                /\ IsFresh(cache[targetUrl].LastUpdated, cfg.memoryCacheDuration)
  IN /\ pc[r] = "scrape"
     /\ IF diskHit
          THEN /\ scrapedUrls' = Append(scrapedUrls,
                     ScrapedUrl(targetUrl, "main", diskContent.Title, TRUE, "", "disk_cached"))
               /\ cache' = (targetUrl :> diskContent) @@ cache
               /\ content' = [content EXCEPT ![r] = diskContent]
               /\ pc' = [pc EXCEPT ![r] = "store"]
          ELSE IF memHit
          THEN /\ scrapedUrls' = Append(scrapedUrls,
                     ScrapedUrl(targetUrl, "main", cache[targetUrl].Title, TRUE, "", "memory_cached"))
               /\ content' = [content EXCEPT ![r] = cache[targetUrl]]
               /\ pc' = [pc EXCEPT ![r] = "store"]
               /\ UNCHANGED cache
          ELSE /\ pc' = [pc EXCEPT ![r] = "fetchMain"]
               /\ UNCHANGED <<scrapedUrls, cache, content>>
     /\ UNCHANGED <<env, cfg, web, pdfCache, fileCache, now, disk, visitedUrls, scrapedPagesCount, websiteData,
                    lastDataFetch, stack, reply, served, netLog>>

\* scrapePage for the root, then the rest of scrapeWebsiteWithDepth up to the
\* link loop of processLinkedContentWithDepth
FetchMain(r) ==
  LET targetUrl == RootURL
      gate == ScrapePageGate(targetUrl, 0, "main")
      page == web[PageKey(targetUrl)]
      contentHash == calculateContentHash(page.Body)
      fresh == [WebsiteContent(page.Title, ExtractLinks(page), contentHash, now)
                  EXCEPT !.Text = contentText(page)]
      follow == ~(0 >= cfg.maxScrapingDepth \/ ~canScrapeMore)
  IN /\ pc[r] = "fetchMain"
     /\ \/ /\ gate = "limits"
           /\ pc' = [pc EXCEPT ![r] = "failed"]
           /\ UNCHANGED <<scrapedUrls, netLog, cache, disk, content, stack, visitedUrls,
                          pdfCache, fileCache>>
        \/ /\ gate = "disallowed"
           /\ scrapedUrls' = Append(scrapedUrls,
                 ScrapedUrl(targetUrl, "main", "", FALSE, "not allowed", ""))
           /\ pc' = [pc EXCEPT ![r] = "failed"]
           /\ UNCHANGED <<netLog, cache, disk, content, stack, visitedUrls,
                          pdfCache, fileCache>>
        \/ /\ gate = "fetch"
           /\ \E ok \in FetchOutcomes(targetUrl) :
                /\ netLog' = Append(netLog, GetLog(targetUrl, "main", 0, Nil, ok))
                /\ IF ~ok
                     THEN /\ scrapedUrls' = Append(scrapedUrls,
                                ScrapedUrl(targetUrl, "main", "", FALSE, "fetch failed", ""))
                          /\ pc' = [pc EXCEPT ![r] = "failed"]
                          /\ UNCHANGED <<cache, disk, content, stack, visitedUrls,
                                         pdfCache, fileCache>>
                     ELSE IF findContentByHash(contentHash) # {}
                     THEN \E d \in findContentByHash(contentHash), written \in BOOLEAN :
                            LET reused == [disk[d].Content EXCEPT !.LastUpdated = now]
                            IN /\ cache' = (targetUrl :> reused) @@ cache
                               /\ disk' = saveContentToDisk(targetUrl, reused, written)
                               /\ scrapedUrls' = Append(scrapedUrls,
                                     ScrapedUrl(targetUrl, "main", reused.Title, TRUE, "", "content_reused"))
                               /\ content' = [content EXCEPT ![r] = reused]
                               /\ pc' = [pc EXCEPT ![r] = "store"]
                               /\ UNCHANGED <<stack, visitedUrls, pdfCache, fileCache>>
                     ELSE \E pdfFailed \in SUBSET PDFLinks(fresh.Links),
                             fileFailed \in SUBSET FileLinks(fresh.Links) :
                            LET pdfs == processPDFs(fresh.Links, 1, targetUrl, pdfFailed,
                                                    DocState(scrapedUrls, <<>>, pdfCache))
                                files == processFiles(fresh.Links, 1, targetUrl, fileFailed,
                                                      DocState(pdfs.log, <<>>, fileCache))
                            IN /\ content' = [content EXCEPT ![r] =
                                     [fresh EXCEPT !.PDFContent = pdfs.docs,
                                                   !.FileContent = files.docs]]
                               /\ scrapedUrls' = files.log
                               /\ pdfCache' = pdfs.docCache
                               /\ fileCache' = files.docCache
                               /\ visitedUrls' = IF follow THEN markURLVisited(targetUrl)
                                                 ELSE visitedUrls
                               /\ stack' = [stack EXCEPT ![r] =
                                     <<Frame("root", targetUrl, 0,
                                             IF follow THEN fresh.Links ELSE <<>>, Nil)>>]
                               /\ pc' = [pc EXCEPT ![r] = "links"]
                               /\ UNCHANGED <<cache, disk>>
     /\ scrapedPagesCount' = IF gate = "fetch" THEN scrapedPagesCountAfter("main")
                             ELSE scrapedPagesCount
     /\ UNCHANGED <<env, cfg, web, now, websiteData, lastDataFetch, reply, served>>


\* strings.HasPrefix(href, "/") || strings.HasPrefix(href, "./")
HasPrefixSlash(u) == u.Scheme = "" /\ u.Host = "" /\ Len(u.Path) > 0

\* the absolute URL the link loop of frame f makes of a link
FullURL(f, link) ==
  IF f.kind = "root"
    THEN (IF link.Type = "internal" THEN resolveURL(f.url, link.URL)
          ELSE IF HasPrefixSlash(link.URL) THEN resolveURL(f.url, link.URL)
          ELSE link.URL)
    ELSE (IF HasPrefixSlash(link.URL) THEN resolveURL(f.url, link.URL) ELSE link.URL)

\* a link loop of the root in which the toggle decides for every link
Qualifies_ToggleForAll(f, link) ==
  LET fullURL == FullURL(f, link)
  IN IF f.kind = "root"
       THEN /\ cfg.enableInternalLinks
            /\ \/ isProfessionalLink(fullURL)
               \/ isInternalNavigationLink(fullURL, link.Type)
       ELSE /\ HasPrefixHttp(fullURL)
            /\ ~isSameDomain(f.url, fullURL)
            /\ ~isURLVisited(fullURL)
            /\ isUrlAllowed(fullURL)

\* whether the link loop of frame f calls scrapeLinkedPageWithDepthAndContent:
\* shouldProcess in processLinkedContentWithDepth, the four skips in the loop
\* over the links of a linked page
Qualifies(f, link) ==
  LET fullURL == FullURL(f, link)
  IN IF f.kind = "root"
       THEN \/ isProfessionalLink(fullURL)
            \/ cfg.enableInternalLinks /\ isInternalNavigationLink(fullURL, link.Type)
       ELSE /\ HasPrefixHttp(fullURL)
            /\ ~isSameDomain(f.url, fullURL)
            /\ ~isURLVisited(fullURL)
            /\ isUrlAllowed(fullURL)

\* one turn of a link loop, up to the GET of scrapePage
VisitLink(r) ==
  /\ pc[r] = "links"
  /\ Top(r).i <= Len(Top(r).links)
  /\ LET f == Top(r)
         link == f.links[f.i]
         fullURL == FullURL(f, link)
         gate == ScrapePageGate(fullURL, f.depth + 1, "linked")
     IN IF ~Qualifies(f, link)
          THEN /\ stack' = SetTop(r, Advance(f))
               /\ UNCHANGED <<scrapedUrls, visitedUrls, scrapedPagesCount, pc>>
          ELSE IF gate \in {"limits", "visited"}
          THEN /\ stack' = SetTop(r, AfterLinkError(f))
               /\ UNCHANGED <<scrapedUrls, visitedUrls, scrapedPagesCount, pc>>
          ELSE IF gate = "disallowed"
          THEN /\ scrapedUrls' = Append(scrapedUrls,
                     ScrapedUrl(fullURL, "linked", "", FALSE, "not allowed", ""))
               /\ stack' = SetTop(r, AfterLinkError(f))
               /\ UNCHANGED <<visitedUrls, scrapedPagesCount, pc>>
          ELSE /\ visitedUrls' = markURLVisited(fullURL)
               /\ scrapedPagesCount' = scrapedPagesCountAfter("linked")
               /\ stack' = SetTop(r, [f EXCEPT !.pending = fullURL])
               /\ pc' = [pc EXCEPT ![r] = "fetchLinked"]
               /\ UNCHANGED scrapedUrls
  /\ UNCHANGED <<env, cfg, web, pdfCache, fileCache, now, cache, disk, websiteData, lastDataFetch, content,
                 reply, served, netLog>>

\* a return that puts its audit entry at the head of the log
ReturnLinked_Prepends(r, f, lc, contentType, addToMain) ==
  /\ scrapedUrls' = <<ScrapedUrl(lc.URL, "linked", lc.Title, TRUE, "", contentType)>>
                      \o scrapedUrls
  /\ content' = IF addToMain
                  THEN [content EXCEPT ![r].LinkedContent = (lc.URL :> lc) @@ @]
                  ELSE content

\* a return that never writes the record into the root's map
ReturnLinked_NeverAdds(r, f, lc, contentType, addToMain) ==
  /\ scrapedUrls' = Append(scrapedUrls,
        ScrapedUrl(lc.URL, "linked", lc.Title, TRUE, "", contentType))
  /\ content' = content

\* scrapeLinkedPageWithDepthAndContent returns lc to the loop of frame f
ReturnLinked(r, f, lc, contentType, addToMain) ==
  /\ scrapedUrls' = Append(scrapedUrls,
        ScrapedUrl(lc.URL, "linked", lc.Title, TRUE, "", contentType))
  /\ content' = IF addToMain
                  THEN [content EXCEPT ![r].LinkedContent = (lc.URL :> lc) @@ @]
                  ELSE content

\* the GET of scrapePage for a linked page and the rest of
\* scrapeLinkedPageWithDepthAndContent up to its own link loop
FetchLinked(r) ==
  /\ pc[r] = "fetchLinked"
  /\ LET f == Top(r)
         targetUrl == f.pending
         depth == f.depth + 1
         page == web[PageKey(targetUrl)]
         contentHash == calculateContentHash(page.Body)
         linkedContent == [LinkedPageContent(targetUrl, page.Title, contentHash, now)
                             EXCEPT !.Text = contentText(page)]
         Fresh ==
           IF CanNest(depth)
             THEN /\ stack' = [stack EXCEPT ![r] =
                        Append(@, Frame("linked", targetUrl, depth, ExtractLinks(page),
                                        linkedContent))]
                  /\ UNCHANGED <<scrapedUrls, content>>
             ELSE /\ ReturnLinked(r, f, linkedContent, linkedContent.ContentType,
                                  f.kind = "linked")
                  /\ stack' = SetTop(r, Advance(f))
     IN \E ok \in FetchOutcomes(targetUrl) :
          /\ netLog' = Append(netLog, GetLog(targetUrl, "linked", depth, f.url, ok))
          /\ IF ~ok
               THEN /\ scrapedUrls' = Append(scrapedUrls,
                          ScrapedUrl(targetUrl, "linked", "", FALSE, "fetch failed", ""))
                    /\ stack' = SetTop(r, AfterLinkError(f))
                    /\ UNCHANGED content
               ELSE IF findContentByHash(contentHash) = {} THEN Fresh
               ELSE \E d \in findContentByHash(contentHash) :
                      LET existing == disk[d].Content.LinkedContent
                          same == {k \in DOMAIN existing : existing[k].ContentHash = contentHash}
                      IN IF same = {} THEN Fresh
                         ELSE \E k \in same :
                                /\ ReturnLinked(r, f,
                                      [existing[k] EXCEPT !.URL = targetUrl, !.LastUpdated = now],
                                      "content_reused", TRUE)
                                /\ stack' = SetTop(r, Advance(f))
  /\ pc' = [pc EXCEPT ![r] = "links"]
  /\ UNCHANGED <<env, cfg, web, pdfCache, fileCache, now, cache, disk, visitedUrls, scrapedPagesCount,
                 websiteData, lastDataFetch, reply, served>>

\* a linked page that returns to the loop without its audit entry
FinishLinked_NoAudit(r) ==
  /\ pc[r] = "links"
  /\ Top(r).kind = "linked"
  /\ Top(r).i > Len(Top(r).links)
  /\ LET f == Top(r)
         caller == stack[r][Len(stack[r]) - 1]
     IN /\ content' = IF caller.kind = "linked"
                        THEN [content EXCEPT ![r].LinkedContent = (f.lc.URL :> f.lc) @@ @]
                        ELSE content
        /\ stack' = [stack EXCEPT ![r] =
              [SubSeq(@, 1, Len(@) - 1) EXCEPT ![Len(@) - 1] = Advance(caller)]]
  /\ UNCHANGED <<env, cfg, web, pdfCache, fileCache, now, cache, disk, visitedUrls,
                 scrapedPagesCount, scrapedUrls, websiteData, lastDataFetch, pc, reply,
                 served, netLog>>

\* the link loop of a linked page is through: the page is recorded and
\* returned to the loop that called for it
FinishLinked(r) ==
  /\ pc[r] = "links"
  /\ Top(r).kind = "linked"
  /\ Top(r).i > Len(Top(r).links)
  /\ LET f == Top(r)
         caller == stack[r][Len(stack[r]) - 1]
     IN /\ ReturnLinked(r, caller, f.lc, f.lc.ContentType, caller.kind = "linked")
        /\ stack' = [stack EXCEPT ![r] =
              [SubSeq(@, 1, Len(@) - 1) EXCEPT ![Len(@) - 1] = Advance(caller)]]
  /\ UNCHANGED <<env, cfg, web, pdfCache, fileCache, now, cache, disk, visitedUrls, scrapedPagesCount,
                 websiteData, lastDataFetch, pc, reply, served, netLog>>

\* an end of scrapeWebsiteWithDepth that returns the error of the write
FinishRoot_AbortOnSaveError(r) ==
  /\ pc[r] = "links"
  /\ Top(r).kind = "root"
  /\ Top(r).i > Len(Top(r).links)
  /\ scrapedUrls' = Append(scrapedUrls,
        ScrapedUrl(RootURL, "main", content[r].Title, TRUE, "", "website"))
  /\ \E written \in BOOLEAN :
       /\ disk' = saveContentToDisk(RootURL, content[r], written)
       /\ cache' = IF written THEN (RootURL :> content[r]) @@ cache ELSE cache
       /\ pc' = [pc EXCEPT ![r] = IF written THEN "store" ELSE "failed"]
  /\ stack' = [stack EXCEPT ![r] = <<>>]
  /\ UNCHANGED <<env, cfg, web, pdfCache, fileCache, now, visitedUrls, scrapedPagesCount, websiteData,
                 lastDataFetch, content, reply, served, netLog>>

\* processLinkedContentWithDepth is through: the end of scrapeWebsiteWithDepth
FinishRoot(r) ==
  /\ pc[r] = "links"
  /\ Top(r).kind = "root"
  /\ Top(r).i > Len(Top(r).links)
  /\ scrapedUrls' = Append(scrapedUrls,
        ScrapedUrl(RootURL, "main", content[r].Title, TRUE, "", "website"))
  /\ \E written \in BOOLEAN : disk' = saveContentToDisk(RootURL, content[r], written)
  /\ cache' = (RootURL :> content[r]) @@ cache
  /\ stack' = [stack EXCEPT ![r] = <<>>]
  /\ pc' = [pc EXCEPT ![r] = "store"]
  /\ UNCHANGED <<env, cfg, web, pdfCache, fileCache, now, visitedUrls, scrapedPagesCount, websiteData,
                 lastDataFetch, content, reply, served, netLog>>

\* refreshWebsiteData after ScrapeWebsite returned a record, and the answer
\* of ProcessMessage and handleChat
StoreData(r) ==
  /\ pc[r] = "store"
  /\ websiteData' = content[r]
  /\ lastDataFetch' = now
  /\ \E ollama \in OllamaOutcomes : reply' = [reply EXCEPT ![r] = ChatResponse(ollama)]
  /\ pc' = [pc EXCEPT ![r] = "idle"]
  /\ UNCHANGED <<env, cfg, web, pdfCache, fileCache, now, cache, disk, scrapedUrls, visitedUrls,
                 scrapedPagesCount, stack, content, served, netLog>>

\* refreshWebsiteData storing the nil record of a failed crawl
RespondError_DropsData(r) ==
  /\ pc[r] = "failed"
  /\ reply' = [reply EXCEPT ![r] = ErrorResponse]
  /\ websiteData' = Nil
  /\ pc' = [pc EXCEPT ![r] = "idle"]
  /\ UNCHANGED <<env, cfg, web, pdfCache, fileCache, now, cache, disk, scrapedUrls, visitedUrls,
                 scrapedPagesCount, lastDataFetch, stack, content, served, netLog>>

\* ScrapeWebsite returned an error: refreshWebsiteData and ProcessMessage
\* return it and handleChat answers 500
RespondError(r) ==
  /\ pc[r] = "failed"
  /\ reply' = [reply EXCEPT ![r] = ErrorResponse]
  /\ pc' = [pc EXCEPT ![r] = "idle"]
  /\ UNCHANGED <<env, cfg, web, pdfCache, fileCache, now, cache, disk, scrapedUrls, visitedUrls,
                 scrapedPagesCount, websiteData, lastDataFetch, stack, content,
                 served, netLog>>

CrawlStep(r) ==
  \/ ScrapeWebsite(r)
  \/ FetchMain(r)
  \/ VisitLink(r)
  \/ FetchLinked(r)
  \/ FinishLinked(r)
  \/ FinishRoot(r)

Next ==
  \E r \in Requests :
    \/ ReceiveMessage(r)
    \/ CrawlStep(r)
    \/ StoreData(r)
    \/ RespondError(r)

Spec == Init /\ [][Next]_vars

\* each step of a crawl returns: a GET is bounded by the client's timeout
FairSpec == Spec /\ \A r \in Requests : WF_vars(CrawlStep(r))

\* ---- normalizeURL on its own
GitHubSlashes == URL("https", "github.com", <<"alice", "", "">>)
RootSlash == URL("http", "example.com", <<"">>)
Tracked ==
  WithQuery(URL("http", "example.com", <<"blog">>),
            <<[k |-> "utm_source", v |-> "mail"], [k |-> "page", v |-> "2"]>>)

\* URL strings a page can carry in its links: upper case, fragment, tracking
\* parameters, no, one and two trailing slashes
NormInputs ==
  {RootURL, RootSlash, GitHub, GitHubSlash, GitHubSlashes, GitHubUpper, Tracked,
   LinkedIn, Medium, Other}

\* markURLVisited called with a URL
MarkVisited(u) ==
  /\ visitedUrls' = markURLVisited(u)
  /\ UNCHANGED <<env, cfg, web, pdfCache, fileCache, now, cache, disk, scrapedUrls, scrapedPagesCount,
                 websiteData, lastDataFetch, pc, stack, content, reply, served, netLog>>

NormInit ==
  /\ Init
  /\ web = GChain
  /\ disk = <<>>
  /\ cfg.allowedUrlPatterns = <<>>
  /\ ~cfg.refreshContent
  /\ cfg.maxScrapingDepth = 1
  /\ cfg.maxPagesPerSession = 1

NormNext == \E u \in NormInputs : MarkVisited(u)

NormSpec == NormInit /\ [][NormNext]_vars

\* chat requests that overlap: net/http runs handleChat of each request in a
\* goroutine of its own and neither Chatbot nor WebScraper holds a lock.  The
\* steps of the two handlers interleave; the site is the chain, crawled to
\* depth 3 with the filter and the internal links off
ConcInit ==
  /\ Init
  /\ web = GChain
  /\ cfg.allowedUrlPatterns = <<>>
  /\ cfg.maxScrapingDepth = 3
  /\ cfg.maxPagesPerSession = 2

ConcNext ==
  \E r \in Handlers :
    \/ ReceiveMessage(r)
    \/ CrawlStep(r)
    \/ StoreData(r)
    \/ RespondError(r)

ConcSpec == ConcInit /\ [][ConcNext]_vars

\* ---- overlapping requests, with the steps of scrapePage apart
\* scrapePage reads the counter and the visited set in its tests
\* (scraper.go:509-523) and writes them some statements later
\* (scraper.go:526-530), with no lock held: another goroutine can run
\* between the two.  CheckLink is one turn of a link loop up to the tests
CheckLink(r) ==
  /\ pc[r] = "links"
  /\ Top(r).i <= Len(Top(r).links)
  /\ LET f == Top(r)
         link == f.links[f.i]
         fullURL == FullURL(f, link)
         gate == ScrapePageGate(fullURL, f.depth + 1, "linked")
     IN IF ~Qualifies(f, link)
          THEN /\ stack' = SetTop(r, Advance(f))
               /\ UNCHANGED <<scrapedUrls, pc>>
          ELSE IF gate \in {"limits", "visited"}
          THEN /\ stack' = SetTop(r, AfterLinkError(f))
               /\ UNCHANGED <<scrapedUrls, pc>>
          ELSE IF gate = "disallowed"
          THEN /\ scrapedUrls' = Append(scrapedUrls,
                     ScrapedUrl(fullURL, "linked", "", FALSE, "not allowed", ""))
               /\ stack' = SetTop(r, AfterLinkError(f))
               /\ UNCHANGED pc
          ELSE /\ stack' = SetTop(r, [f EXCEPT !.pending = fullURL])
               /\ pc' = [pc EXCEPT ![r] = "mark"]
               /\ UNCHANGED scrapedUrls
  /\ UNCHANGED <<env, cfg, web, pdfCache, fileCache, now, cache, disk, visitedUrls,
                 scrapedPagesCount, websiteData, lastDataFetch, content, reply, served,
                 netLog>>

\* the URL that passed the tests is marked and counted
MarkLink(r) ==
  /\ pc[r] = "mark"
  /\ visitedUrls' = markURLVisited(Top(r).pending)
  /\ scrapedPagesCount' = scrapedPagesCountAfter("linked")
  /\ pc' = [pc EXCEPT ![r] = "fetchLinked"]
  /\ UNCHANGED <<env, cfg, web, pdfCache, fileCache, now, cache, disk, scrapedUrls,
                 websiteData, lastDataFetch, stack, content, reply, served, netLog>>

RaceNext ==
  \E r \in Handlers :
    \/ ReceiveMessage(r)
    \/ ScrapeWebsite(r)
    \/ FetchMain(r)
    \/ CheckLink(r)
    \/ MarkLink(r)
    \/ FetchLinked(r)
    \/ FinishLinked(r)
    \/ FinishRoot(r)
    \/ StoreData(r)
    \/ RespondError(r)

RaceSpec == ConcInit /\ [][RaceNext]_vars

\* ---- the link loop of the root page on a page with links of every kind
Login == URL("", "", <<"login">>)

\* a root page with a professional link that has a fragment, an external
\* link to no professional profile, an internal link to a page and an
\* internal link that a skip pattern excludes; the profile page has the
\* external link too
GNav ==
  (PageKey(RootURL) :> Page("A", "bytesA", <<GitHubUpper, Other, About, Login>>))
  @@ (PageKey(GitHub) :> Page("B", "bytesB", <<Other>>))
  @@ (PageKey(Other) :> Page("E", "bytesE", <<>>))
  @@ (PageKey(resolveURL(RootURL, About)) :> Page("F", "bytesF", <<>>))
  @@ (PageKey(resolveURL(RootURL, Login)) :> Page("G", "bytesG", <<>>))

NavInit ==
  /\ Constructed
  /\ web = GNav
  /\ disk = <<>>
  /\ Start

NavSpec == NavInit /\ [][Next]_vars

\* ---- the cache directory with a content.json that cannot be read
\* scraped_content/ as it can be when the program starts: empty, with a file
\* for the root that cannot be read or parsed, or with the root's record of
\* an hour ago
FaultyDisks(w) ==
  {<<>>} \cup
  {generateSafeDirectoryName(RootURL) :> Corrupt} \cup
  {generateSafeDirectoryName(RootURL) :> OldRecord(w, "bytesOld")}

DiskInit ==
  /\ Constructed
  /\ ~cfg.enableInternalLinks
  /\ web = GChain
  /\ disk \in FaultyDisks(web)
  /\ Start

DiskSpec == DiskInit /\ [][Next]_vars

\* ---- determineContentType on its own
TypeHosts ==
  {"github.com", "GitHub.com", "gitlab.com", "linkedin.com", "medium.com", "dev.to",
   "stackoverflow.com", "other.org"}

TypePaths ==
  {<<>>, <<"blog">>, <<"my-blog">>, <<"github.com">>, <<"linkedin.com">>,
   <<"stackoverflow.com">>}

\* URLs that match none, one or two of the patterns of determineContentType
TypeInputs == {URL("https", h, p) : h \in TypeHosts, p \in TypePaths}

\* scrapeLinkedPageWithDepthAndContent for a page without links that was
\* fetched: the content type it gives the record and the audit entry
Classify(u) ==
  /\ Len(scrapedUrls) < MaxClassified
  /\ scrapedUrls' = Append(scrapedUrls,
        ScrapedUrl(u, "linked", "", TRUE, "", LinkedPageContent(u, "", <<>>, now).ContentType))
  /\ UNCHANGED <<env, cfg, web, now, cache, pdfCache, fileCache, disk, visitedUrls,
                 scrapedPagesCount, websiteData, lastDataFetch, pc, stack, content,
                 reply, served, netLog>>

TypeInit ==
  /\ Constructed
  /\ cfg.allowedUrlPatterns = <<>>
  /\ ~cfg.refreshContent
  /\ ~cfg.enableInternalLinks
  /\ cfg.maxScrapingDepth = 1
  /\ cfg.maxPagesPerSession = 1
  /\ web = GChain
  /\ disk = <<>>
  /\ Start

TypeNext == \E u \in TypeInputs : Classify(u)

TypeSpec == TypeInit /\ [][TypeNext]_vars

\* ---- a root page with links to documents
CV == URL("", "", <<"cv.pdf">>)
Paper == URL("https", "example.com", <<"files", "Paper.PDF">>)
Skills == URL("https", "example.com", <<"files", "skills.docx">>)

\* a root page with two links to PDF files, one of them internal, a link to
\* an office document and a link to a profile
GDocs ==
  (PageKey(RootURL) :> Page("A", "bytesA", <<CV, Paper, Skills, GitHub>>))
  @@ (PageKey(GitHub) :> Page("B", "bytesB", <<>>))

DocInit ==
  /\ Constructed
  /\ cfg.allowedUrlPatterns = <<>>
  /\ ~cfg.refreshContent
  /\ web = GDocs
  /\ disk = <<>>
  /\ Start

DocSpec == DocInit /\ [][Next]_vars

\* ---- NewWebScraper on its own
\* the environments the process can start in: the cache duration and the
\* depth are not set, set to a text that is no number or set to an integer
AllEnvs ==
  [ALLOWED_SCRAPING_URL_PATTERNS : {<<>>},
   ENABLE_INTERNAL_LINK_SCRAPING : {""},
   REFRESH_CONTENT : {""},
   MIN_TEXT_LENGTH : {EnvUnset},
   MAX_CONTENT_LENGTH : {EnvUnset},
   MAX_SCRAPING_DEPTH : {EnvUnset, EnvText} \cup {EnvInt(n) : n \in -1..MaxDepthEnv},
   MAX_PAGES_PER_SESSION : {EnvUnset},
   CACHE_DURATION_HOURS : {EnvUnset, EnvText} \cup {EnvInt(n) : n \in -1..MaxHoursEnv}]

\* main: the scraper is built from the environment before a request is served
Construct ==
  /\ cfg = Nil
  /\ cfg' = NewWebScraper(env)
  /\ UNCHANGED <<env, web, now, cache, pdfCache, fileCache, disk, scrapedUrls, visitedUrls,
                 scrapedPagesCount, websiteData, lastDataFetch, pc, stack, content,
                 reply, served, netLog>>

EnvInit ==
  /\ env \in AllEnvs
  /\ cfg = Nil
  /\ web = GChain
  /\ disk = <<>>
  /\ Start

EnvNext == Construct

EnvSpec == EnvInit /\ [][EnvNext]_vars

\* ---- pages with text, and an Ollama service that comes and goes
\* the root page with the text given links to a profile without text,
\* which links to a blog with a text of two letters more than
\* maxContentLength; o1 and o3 are what the Ollama service does with the
\* texts, and it is there when the crawl comes to the profile
GSum(text, o1, o3) ==
  (PageKey(RootURL) :> WithText(Page("A", "bytesA", <<GitHub>>), text, o1))
  @@ (PageKey(GitHub) :> WithText(Page("B", "bytesB", <<Medium>>), <<>>, "ok"))
  @@ (PageKey(Medium) :>
        WithText(Page("D", "bytesD", <<>>), TextOfLen(MaxContentLengthCfg + 2), o3))

\* root texts of maxContentLength letters, of one letter more, and of one
\* letter more with an accented letter where the text is cut
SumWebs ==
  {GSum(text, o1, o3) :
     text \in {TextOfLen(MaxContentLengthCfg), TextOfLen(MaxContentLengthCfg + 1),
               AccentedText(MaxContentLengthCfg + 1)},
     o1 \in SummarizeOutcomes, o3 \in SummarizeOutcomes}

SumInit ==
  /\ Constructed
  /\ cfg.allowedUrlPatterns = <<>>
  /\ ~cfg.refreshContent
  /\ ~cfg.enableInternalLinks
  /\ web \in SumWebs
  /\ disk = <<>>
  /\ Start

SumSpec == SumInit /\ [][Next]_vars

\* ---- a crawl that follows a crawl while the record on disk is young
\* the next message comes half an hour or two hours after the last answer
RepeatDelays == {30 * Minute, 2 * Hour}

RepeatNext ==
  \E r \in Requests :
    \/ \E delay \in RepeatDelays : ReceiveMessageAfter(r, delay)
    \/ CrawlStep(r)
    \/ StoreData(r)
    \/ RespondError(r)

RepeatSpec == SumInit /\ [][RepeatNext]_vars

\* ---- a cache directory that earlier runs wrote for other root URLs
\* the root URL with the other scheme, with a leading "www.", with a path
SchemeVariant == URL("https", "example.com", <<>>)
WwwVariant == URL("http", "www.example.com", <<>>)
PathVariant == URL("http", "example.com", <<"cv">>)

\* the values WEBSITE_URL had in this run and in earlier ones
RootVariants == {RootURL, SchemeVariant, WwwVariant, PathVariant, MirrorURL}

\* scraped_content/ as an earlier run of the program, started with the root
\* URL v an hour ago, left it
EarlierDisks(w) ==
  {<<>>} \cup
  {generateSafeDirectoryName(v) :> [OldRecord(w, "bytesOld") EXCEPT !.URL = v] :
     v \in RootVariants}

DirInit ==
  /\ Constructed
  /\ cfg.allowedUrlPatterns = <<>>
  /\ ~cfg.enableInternalLinks
  /\ web = GChain
  /\ disk \in EarlierDisks(web)
  /\ Start

DirSpec == DirInit /\ [][Next]_vars


\* ------------------------------------------------------------ properties
Last(q) == q[Len(q)]

\* a root crawl that extracted the root page and went through its links has
\* returned
FreshCrawlDone(r) ==
  /\ pc[r] = "store"
  /\ Len(scrapedUrls) > 0
  /\ Last(scrapedUrls).ContentType = "website"

GetsOf(n) == {i \in DOMAIN netLog : normalizeURL(netLog[i].URL) = n}

LinkedGets == {i \in DOMAIN netLog : netLog[i].Type = "linked"}

Fetched(u) == \E i \in DOMAIN netLog : netLog[i].URL = u

\* the link loop of the root page as processLinkedContentWithDepth starts it
RootFrame == Frame("root", RootURL, 0, ExtractLinks(web[PageKey(RootURL)]), Nil)

RootLinkURL(i) == FullURL(RootFrame, RootFrame.links[i])

QualifyingRootLinks ==
  {i \in DOMAIN RootFrame.links : Qualifies(RootFrame, RootFrame.links[i])}

C2_PageBudget ==
  /\ scrapedPagesCount <= cfg.maxPagesPerSession
  /\ Cardinality(LinkedGets) <= cfg.maxPagesPerSession
  /\ \A r \in Requests :
       /\ FreshCrawlDone(r)
       /\ cfg.maxPagesPerSession = 1
       /\ cfg.maxScrapingDepth >= 2
       /\ \E i \in QualifyingRootLinks : isUrlAllowed(RootLinkURL(i))
       => Cardinality(LinkedGets) = 1

\* a root page with four links to follow was crawled with a budget of 1
C2_Witness ==
  /\ FreshCrawlDone(1)
  /\ cfg.maxPagesPerSession = 1
  /\ Cardinality(QualifyingRootLinks) >= 4
  /\ Cardinality(LinkedGets) = 1
  /\ scrapedPagesCount = 1

\* ---- C3
\* the longest list of links a page of the web has
MaxLinks ==
  CHOOSE n \in 0..16 :
    /\ \A k \in DOMAIN web : Len(web[k].Links) <= n
    /\ \E k \in DOMAIN web : Len(web[k].Links) = n

\* the links a loop has still to go through, and one for the loop itself
RECURSIVE StackRank(_)
StackRank(st) ==
  IF st = <<>> THEN 0
  ELSE (Len(Last(st).links) - Last(st).i + 2) + StackRank(SubSeq(st, 1, Len(st) - 1))

BudgetRank == (cfg.maxPagesPerSession - scrapedPagesCount) * (MaxLinks + 3)

\* a measure of the work a crawl has left, made of the page budget and of
\* the link loops that are open; it does not read the visited set
Rank(r) ==
  CASE pc[r] = "scrape" -> MaxLinks + 4 + cfg.maxPagesPerSession * (MaxLinks + 3)
    [] pc[r] = "fetchMain" -> MaxLinks + 3 + cfg.maxPagesPerSession * (MaxLinks + 3)
    [] pc[r] = "links" -> StackRank(stack[r]) + BudgetRank
    [] pc[r] = "fetchLinked" -> StackRank(stack[r]) + BudgetRank + MaxLinks + 2
    [] OTHER -> 0

\* C3: a root crawl that has started returns, whatever the page graph and
\* the configuration, given that every GET returns; every step of it lowers
\* a measure that is bounded below and is made of the page budget and the
\* open link loops only, not of the visited set.
C3_CrawlTerminates ==
  /\ \A r \in Requests : (pc[r] = "scrape") ~> (pc[r] \in {"store", "failed"})
  /\ [](\A r \in Requests : Rank(r) >= 0)
  /\ [][\A r \in Requests :
          pc[r] \in {"scrape", "fetchMain", "links", "fetchLinked"}
            => Rank(r)' < Rank(r)]_vars

\* a crawl of the cyclic graph has returned after it used up its page budget
C3_Witness ==
  /\ web = GCycle
  /\ FreshCrawlDone(1)
  /\ cfg.maxScrapingDepth >= 3
  /\ scrapedPagesCount = cfg.maxPagesPerSession
  /\ scrapedPagesCount >= 2

\* ---- C4
\* a crawl of the chain A -> B -> C -> D has returned, nothing was filtered,
\* the budget was not the limit and every GET was answered
ChainDone(r) ==
  /\ web = GChain
  /\ FreshCrawlDone(r)
  /\ cfg.allowedUrlPatterns = <<>>
  /\ cfg.maxPagesPerSession >= 3
  /\ \A i \in DOMAIN netLog : netLog[i].ok

\* C4 as claimed: with maxDepth = 2 the crawl of the chain from A fetches C
\* and never fetches D.
C4_Original ==
  \A r \in Requests :
    ChainDone(r) /\ cfg.maxScrapingDepth = 2 => Fetched(LinkedIn) /\ ~Fetched(Medium)

\* C4 as amended: with maxDepth = 2 the crawl of the chain from A fetches B
\* and never fetches C or D; with maxDepth = 3 it fetches C and never D.
C4_DepthBoundOnChain ==
  /\ web = GChain /\ cfg.maxScrapingDepth = 2 => ~Fetched(LinkedIn) /\ ~Fetched(Medium)
  /\ web = GChain /\ cfg.maxScrapingDepth = 3 => ~Fetched(Medium)
  /\ \A r \in Requests :
       /\ ChainDone(r) /\ cfg.maxScrapingDepth = 2 => Fetched(GitHub)
       /\ ChainDone(r) /\ cfg.maxScrapingDepth = 3 => Fetched(GitHub) /\ Fetched(LinkedIn)

\* the chain was crawled with maxDepth = 2 and B was fetched
C4_Witness ==
  /\ ChainDone(1)
  /\ cfg.maxScrapingDepth = 2
  /\ Fetched(GitHub)
  /\ Len(netLog) = 2

\* C5: every page GET is issued at a depth below maxScrapingDepth, the root
\* at depth 0 and a linked page one below the page whose link led to it;
\* with maxScrapingDepth = 1 only the root is fetched, with 2 only the root
\* and pages linked from the root.
C5_DepthBelowMax ==
  \A i \in DOMAIN netLog :
    LET e == netLog[i]
    IN /\ e.depth < cfg.maxScrapingDepth
       /\ e.Type = "main" => e.depth = 0 /\ e.URL = RootURL
       /\ e.Type = "linked" =>
            \E j \in 1..(i - 1) :
              /\ netLog[j].URL = e.parent
              /\ netLog[j].ok
              /\ e.depth = netLog[j].depth + 1
       /\ cfg.maxScrapingDepth = 1 => e.Type = "main"
       /\ cfg.maxScrapingDepth = 2 => e.Type = "main" \/ e.parent = RootURL

\* a page two links away from the root was fetched with maxScrapingDepth = 3
C5_Witness ==
  /\ cfg.maxScrapingDepth = 3
  /\ \E i \in DOMAIN netLog : netLog[i].depth = 2 /\ netLog[i].parent # RootURL
  /\ pc[1] = "store"

\* C6 as claimed: after a crawl that went through the root's links, every
\* link of the root page that was followed and whose GET succeeded has an
\* entry in the LinkedContent of the root content under its full URL, with
\* the content type of that URL.
C6_RootLinksInLinkedContent ==
  \A r \in Requests :
    FreshCrawlDone(r) =>
      \A i \in QualifyingRootLinks :
        LET u == RootLinkURL(i)
        IN (\E j \in DOMAIN netLog :
              netLog[j].URL = u /\ netLog[j].ok /\ netLog[j].parent = RootURL)
           => \E k \in DOMAIN content[r].LinkedContent :
                /\ content[r].LinkedContent[k].URL = u
                /\ content[r].LinkedContent[k].ContentType = determineContentType(u)

\* ---- C7
FailedAudits(u) ==
  {j \in DOMAIN scrapedUrls :
     /\ scrapedUrls[j].URL = u
     /\ scrapedUrls[j].Type = "linked"
     /\ ~scrapedUrls[j].Success}

\* link i of the root page was requested from the root page and the
\* request failed
RootLinkFailed(i) ==
  \E k \in DOMAIN netLog :
    /\ netLog[k].URL = RootLinkURL(i)
    /\ netLog[k].parent = RootURL
    /\ netLog[k].Type = "linked"
    /\ ~netLog[k].ok

\* C7 as claimed: once the crawl has returned, every link of the root page
\* that qualifies, passes the URL filter and comes after a link of the root
\* page whose GET failed has been requested.
C7_Original ==
  \A r \in Requests :
    FreshCrawlDone(r) =>
      \A i, j \in QualifyingRootLinks :
        i < j /\ RootLinkFailed(i) /\ isUrlAllowed(RootLinkURL(j))
          => GetsOf(normalizeURL(RootLinkURL(j))) # {}

\* C7 as amended: a linked page whose GET fails gets one failed audit record,
\* the link loop goes on with the next link and the crawl still returns its
\* content: a crawl that fails has fetched no linked page, and a crawl that
\* returned has requested every link of the root page that qualifies, but
\* for those the URL filter, the page budget (a failed GET uses a page of
\* it) or the depth limit excluded.
C7_LinkFailureTolerated ==
  /\ [](\A i \in DOMAIN netLog :
          netLog[i].Type = "linked" /\ ~netLog[i].ok
            => Cardinality(FailedAudits(netLog[i].URL)) = 1)
  /\ [](\A r \in Requests : pc[r] = "failed" => LinkedGets = {})
  /\ [](\A r \in Requests :
          FreshCrawlDone(r) =>
            \A i \in QualifyingRootLinks :
              \/ GetsOf(normalizeURL(RootLinkURL(i))) # {}
              \/ ~isUrlAllowed(RootLinkURL(i))
              \/ scrapedPagesCount = cfg.maxPagesPerSession
              \/ cfg.maxScrapingDepth = 1)
  /\ [][\A r \in Requests :
          pc[r] = "fetchLinked" /\ Len(netLog') > Len(netLog) /\ ~Last(netLog').ok
            => /\ pc'[r] = "links"
               /\ Len(stack'[r]) = Len(stack[r])
               /\ Last(stack'[r]).i = Last(stack[r]).i + 1
               /\ content'[r] = content[r]]_vars

\* the GET of one link of the root page failed, the GET of a later link of
\* the root page succeeded, and the crawl returned
C7_Witness ==
  /\ FreshCrawlDone(1)
  /\ \E i, j \in DOMAIN netLog :
       /\ i < j
       /\ netLog[i].parent = RootURL /\ netLog[i].Type = "linked" /\ ~netLog[i].ok
       /\ netLog[j].parent = RootURL /\ netLog[j].Type = "linked" /\ netLog[j].ok

\* ---- C8
NeedsRefresh == websiteData = Nil \/ now - lastDataFetch >= DataFetchInterval

\* C8: a crawl fails only when the root page is refused or its GET fails,
\* never because of a linked page; the failed refresh leaves websiteData,
\* lastDataFetch, the memory cache and the disk cache as they were, the data
\* is still due for a refresh, and the next message starts the crawl again.
C8_RootFailureOnly ==
  /\ [](\A r \in Requests :
          pc[r] = "failed" =>
            /\ LinkedGets = {}
            /\ Len(scrapedUrls) = 1
            /\ scrapedUrls[1].URL = RootURL
            /\ scrapedUrls[1].Type = "main"
            /\ ~scrapedUrls[1].Success
            /\ NeedsRefresh)
  /\ [][\A r \in Requests :
          pc'[r] \in {"scrape", "fetchMain", "failed"} \/ pc[r] = "failed"
            => UNCHANGED <<websiteData, lastDataFetch, cache, disk>>]_vars
  /\ [][\A r \in Requests :
          reply[r] = ErrorResponse /\ served' = served + 1 => pc'[r] = "scrape"]_vars

\* the GET of the root page failed while the chatbot held the data of an
\* earlier crawl
C8_Witness ==
  /\ pc[1] = "failed"
  /\ websiteData # Nil
  /\ RootURL \in DOMAIN cache
  /\ Len(netLog) = 1

\* C9 as claimed: a message whose refresh failed on the root page is still
\* answered with a chat response.
C9_FallbackAnswer ==
  \A r \in Requests :
    /\ pc[r] = "idle"
    /\ Len(scrapedUrls) = 1
    /\ scrapedUrls[1].Type = "main"
    /\ ~scrapedUrls[1].Success
    => reply[r][1] = 200

\* C10: with refreshContent off, a disk record of the root younger than
\* cacheDuration is returned as it is and no GET is issued; one older than
\* cacheDuration is passed over and the crawl goes on to the GET of the root.
C10_DiskCacheFreshness ==
  /\ [][\A r \in Requests :
          /\ pc[r] = "scrape"
          /\ pc'[r] # "scrape"
          /\ ~cfg.refreshContent
          /\ loadContentFromDisk(RootURL) # Nil
          => LET c == loadContentFromDisk(RootURL)
             IN /\ now - c.LastUpdated < cfg.cacheDuration
                     => /\ pc'[r] = "store"
                        /\ content'[r] = c
                        /\ netLog' = <<>>
                        /\ Last(scrapedUrls').ContentType = "disk_cached"
                /\ now - c.LastUpdated > cfg.cacheDuration
                     => pc'[r] = "fetchMain"]_vars
  /\ [][\A r \in Requests :
          pc[r] = "fetchMain" /\ pc'[r] # "fetchMain" /\ isUrlAllowed(RootURL)
            => /\ Len(netLog') = 1
               /\ netLog'[1].URL = RootURL
               /\ netLog'[1].Type = "main"]_vars
  /\ [](\A r \in Requests :
          pc[r] = "store" /\ Last(scrapedUrls).ContentType = "disk_cached"
            => netLog = <<>> /\ ~cfg.refreshContent)

\* a disk record that an earlier message was served from had gone stale and
\* the root page was requested again
C10_Witness ==
  /\ ~cfg.refreshContent
  /\ served = 2
  /\ pc[1] = "failed"
  /\ Len(netLog) = 1
  /\ RootURL \in DOMAIN cache
  /\ loadContentFromDisk(RootURL) = cache[RootURL]

\* C11 as claimed: with refreshContent on, a root crawl never returns from
\* the cache lookups at its start, whatever the two caches hold: it goes on
\* to the GET of the root.
C11_RefreshBypassesCaches ==
  [][\A r \in Handlers :
       cfg.refreshContent /\ pc[r] = "scrape" /\ pc'[r] # "scrape"
         => pc'[r] = "fetchMain"]_vars

\* C12 as claimed: with refreshContent on, every message that is received
\* starts a crawl before it is answered.
C12_RefreshOnEveryRequest ==
  [][\A r \in Requests :
       cfg.refreshContent /\ served' = served + 1 => pc'[r] = "scrape"]_vars

\* C13 as claimed: with refreshContent on, the record a root crawl returns
\* was built from the page fetched in this session, after the link loop of
\* the root page: it is no clone of a record read from a cache or the disk.
C13_RefreshIsFresh ==
  \A r \in Requests :
    cfg.refreshContent /\ pc[r] = "store" /\ Len(scrapedUrls) > 0
      => /\ Last(scrapedUrls).ContentType = "website"
         /\ content[r].LastUpdated = now

\* ---- C14
\* the records on disk whose hash is that of the root page as it is served
RootHashMatches ==
  {d \in DOMAIN disk :
     disk[d].Content.ContentHash = calculateContentHash(web[PageKey(RootURL)].Body)}

C15_SameBytesExtractedOnce ==
  \A r \in Requests :
    pc[r] = "store" =>
      \A i, j \in DOMAIN netLog :
        /\ i < j
        /\ netLog[i].ok /\ netLog[j].ok
        /\ PageKey(netLog[i].URL) # PageKey(netLog[j].URL)
        /\ web[PageKey(netLog[i].URL)].Body = web[PageKey(netLog[j].URL)].Body
        => \E k \in DOMAIN scrapedUrls :
             /\ scrapedUrls[k].URL = netLog[j].URL
             /\ scrapedUrls[k].ContentType = "content_reused"

\* the handlers whose crawl is in progress: between the session reset of
\* refreshWebsiteData and the return of ScrapeWebsite
Crawling == {r \in Handlers : pc[r] \in {"scrape", "fetchMain", "links", "fetchLinked"}}

\* C16 as claimed: when chat requests overlap, at most one of them is in a
\* crawl at any time, so that no session reset runs while another request's
\* crawl uses the visited set, the page counter and the audit log.
C16_OneCrawlAtATime == Cardinality(Crawling) <= 1

\* C17 as claimed: normalizeURL is idempotent: every URL the visited set
\* holds, which is the value normalizeURL gave for a URL, is given back
\* unchanged by normalizeURL.
C17_NormalizeIdempotent == \A v \in visitedUrls : normalizeURL(v) = v

\* ---- C18
\* the URLs markURLVisited was called with since the last reset: the root,
\* the pages that were requested and the page a request is about to be sent for
MarkedURLs ==
  {RootURL} \cup {netLog[i].URL : i \in DOMAIN netLog}
    \cup UNION {{stack[r][k].pending : k \in 1..Len(stack[r])} : r \in Requests}

\* C18: a step either keeps every member of visitedUrls or is the session
\* reset of refreshWebsiteData, which empties it; every member is the value
\* of normalizeURL for a URL that was marked since the reset: it is in lower
\* case and has no fragment and no tracking parameter.
C18_VisitedGrowsNormalized ==
  /\ [][\/ visitedUrls \subseteq visitedUrls'
        \/ \E r \in Requests :
             pc[r] = "idle" /\ pc'[r] = "scrape" /\ visitedUrls' = {}]_vars
  /\ [](\A v \in visitedUrls :
          /\ \E u \in MarkedURLs : u # Nil /\ v = normalizeURL(u)
          /\ ToLower(v) = v
          /\ v.Fragment = ""
          /\ \A i \in DOMAIN v.RawQuery : v.RawQuery[i].k \notin TrackingParams)

\* a page was requested under a URL with a trailing slash and a later link
\* to it, in upper case and with a fragment, was found visited; the set had
\* grown to three URLs, none of them as the links wrote them
C18_Witness ==
  /\ FreshCrawlDone(1)
  /\ Fetched(GitHubSlash)
  /\ ~Fetched(GitHubUpper)
  /\ GitHubSlash \notin visitedUrls
  /\ normalizeURL(GitHubUpper) \in visitedUrls
  /\ Cardinality(visitedUrls) >= 3

C20_DisallowedRootRejected ==
  \A r \in Requests : ~isUrlAllowed(RootURL) => pc[r] # "store"

\* ---- C21
HasSkipPattern(u) == \E i \in DOMAIN SkipPatterns : Contains(ToLower(u), SkipPatterns[i])

\* the GETs that the link loop of the root page asked for
RootLinkGets == {i \in DOMAIN netLog : netLog[i].Type = "linked" /\ netLog[i].parent = RootURL}

\* C21: in the link loop of the root page a professional link is followed
\* with the internal-navigation toggle on or off (scrapePage then sends the
\* GET when the limits, the visited set and the filter let it); a link that
\* is not professional is followed only with the toggle on, when it is
\* internal, passes the allow patterns and matches no skip pattern; with the
\* toggle off the links followed from the root are the professional ones.
C21_RootLinkSelection ==
  /\ [][\A r \in Requests :
          pc[r] = "links" /\ Top(r).kind = "root" /\ Top(r).i <= Len(Top(r).links)
            => LET f == Top(r)
                   link == f.links[f.i]
                   fullURL == FullURL(f, link)
                   sent == pc'[r] = "fetchLinked" /\ Last(stack'[r]).pending = fullURL
               IN /\ isProfessionalLink(fullURL)
                       /\ ScrapePageGate(fullURL, 1, "linked") = "fetch" => sent
                  /\ ~isProfessionalLink(fullURL) /\ pc'[r] = "fetchLinked"
                       => /\ cfg.enableInternalLinks
                          /\ link.Type = "internal"
                          /\ isUrlAllowed(fullURL)
                          /\ ~HasSkipPattern(fullURL)]_vars
  /\ [](\A i \in RootLinkGets :
          \/ isProfessionalLink(netLog[i].URL)
          \/ /\ cfg.enableInternalLinks
             /\ netLog[i].URL.Host = RootURL.Host
             /\ isUrlAllowed(netLog[i].URL)
             /\ ~HasSkipPattern(netLog[i].URL))
  /\ [](\A r \in Requests :
          FreshCrawlDone(r) /\ ~cfg.enableInternalLinks /\ cfg.maxScrapingDepth >= 2
            => \A i \in DOMAIN RootFrame.links :
                 isProfessionalLink(RootLinkURL(i))
                   => \/ GetsOf(normalizeURL(RootLinkURL(i))) # {}
                      \/ ~isUrlAllowed(RootLinkURL(i))
                      \/ scrapedPagesCount = cfg.maxPagesPerSession)

\* with the toggle on, the crawl of the root page has requested the
\* professional link and the internal page, and neither the external page
\* that is no profile nor the internal link that a skip pattern excludes
C21_Witness ==
  /\ web = GNav
  /\ FreshCrawlDone(1)
  /\ cfg.enableInternalLinks
  /\ Fetched(GitHubUpper)
  /\ Fetched(resolveURL(RootURL, About))
  /\ \A i \in RootLinkGets : netLog[i].URL # Other
  /\ ~Fetched(resolveURL(RootURL, Login))

\* ---- C22
\* a message was answered from website data: by the step that stored the
\* record of a crawl, or at once from data younger than an hour
AnsweredFromData(r) ==
  /\ reply'[r] # reply[r]
  /\ pc'[r] = "idle"
  /\ pc[r] \in {"store", "idle"}

RootDir == generateSafeDirectoryName(RootURL)

\* C23: a cache file that cannot be read or parsed, like a missing one,
\* sends the root crawl on to the GET of the root and never makes it fail;
\* at the end of the crawl the write of the root record can fail and the
\* crawl still returns the record it extracted, without error, and puts it
\* in the memory cache; a crawl fails only on the root page being refused
\* or its GET failing.
C23_CacheIOFailureTolerated ==
  /\ [][\A r \in Requests :
          /\ pc[r] = "scrape" /\ pc'[r] # "scrape"
          /\ loadContentFromDisk(RootURL) = Nil
          /\ RootURL \notin DOMAIN cache
          => pc'[r] = "fetchMain" /\ UNCHANGED <<scrapedUrls, disk, cache>>]_vars
  /\ [][\A r \in Requests :
          pc[r] = "links" /\ stack'[r] = <<>>
            => /\ pc'[r] = "store"
               /\ content'[r] = content[r]
               /\ cache' = (RootURL :> content[r]) @@ cache
               /\ Last(scrapedUrls').Success
               /\ \/ disk' = disk
                  \/ disk' = (RootDir :> DiskEntry(RootURL, content[r])) @@ disk]_vars
  /\ [](\A r \in Requests :
          pc[r] = "failed"
            => /\ Len(scrapedUrls) = 1
               /\ scrapedUrls[1].URL = RootURL
               /\ ~scrapedUrls[1].Success
               /\ scrapedUrls[1].Error \in {"not allowed", "fetch failed"})

\* the root's cache file could not be read, the crawl fetched the root and
\* a linked page, the write of the record failed, and the crawl returned
\* the record with the memory cache holding it
C23_Witness ==
  /\ disk = (RootDir :> Corrupt)
  /\ FreshCrawlDone(1)
  /\ Len(netLog) >= 2
  /\ cache[RootURL] = content[1]
  /\ content[1].LastUpdated = now

\* ---- C24
\* the audit entries of a document
DocAudits(u, type, success) ==
  {j \in DOMAIN scrapedUrls :
     /\ scrapedUrls[j].URL = u
     /\ scrapedUrls[j].Type = type
     /\ scrapedUrls[j].Success = success}

\* link i of the root page, a document of the given type, was dealt with:
\* it is in the document map of the record and has no failed entry, or it
\* has one failed entry and is left out of the map
DocSettled(i, type, docs) ==
  LET link == RootFrame.links[i]
      fullURL == resolveURL(RootURL, link.URL)
  IN /\ Cardinality(DocAudits(fullURL, type, FALSE)) <= 1
     /\ Cardinality(DocAudits(fullURL, type, TRUE)) <= 1
     /\ link.URL \in DOMAIN docs <=> DocAudits(fullURL, type, FALSE) = {}
     /\ DocAudits(fullURL, type, TRUE) # {} => link.URL \in DOMAIN docs

\* C24: when the root page has been extracted, every PDF link and every
\* office-document link of it has been dealt with, whatever failed before
\* it: a document whose extraction failed has one failed audit entry and is
\* not in PDFContent or FileContent, the others are in the map; the link
\* loop of the root page starts after that with all the links of the page,
\* and the crawl returns its record.
C24_DocumentFailureIsolated ==
  /\ [](\A r \in Requests :
          pc[r] \in {"links", "fetchLinked"} \/ FreshCrawlDone(r)
            => /\ \A i \in PDFLinks(RootFrame.links) :
                    DocSettled(i, "pdf", content[r].PDFContent)
               /\ \A i \in FileLinks(RootFrame.links) :
                    DocSettled(i, "file", content[r].FileContent))
  /\ [][\A r \in Requests :
          pc[r] = "fetchMain" /\ pc'[r] = "links"
            => /\ Len(stack'[r]) = 1
               /\ stack'[r][1].i = 1
               /\ cfg.maxScrapingDepth >= 1
                    => stack'[r][1].links = ExtractLinks(web[PageKey(RootURL)])]_vars
  /\ [](\A r \in Requests :
          FreshCrawlDone(r) /\ cfg.maxScrapingDepth >= 2
            => \A i \in QualifyingRootLinks :
                 \/ GetsOf(normalizeURL(RootLinkURL(i))) # {}
                 \/ ~isUrlAllowed(RootLinkURL(i))
                 \/ scrapedPagesCount = cfg.maxPagesPerSession)

\* the extraction of the first PDF and of the office document failed, the
\* second PDF was extracted, the profile linked from the root page was
\* fetched and the crawl returned
C24_Witness ==
  /\ web = GDocs
  /\ FreshCrawlDone(1)
  /\ DocAudits(resolveURL(RootURL, CV), "pdf", FALSE) # {}
  /\ DocAudits(Skills, "file", FALSE) # {}
  /\ DOMAIN content[1].PDFContent = {Paper}
  /\ content[1].FileContent = <<>>
  /\ Fetched(GitHub)

\* C25 as claimed: every URL requested as a linked page, at any depth, is
\* a professional link or, with the internal-navigation toggle on, an
\* internal link of the site that passes the allow patterns and matches no
\* skip pattern; a link that is neither is never requested, on whatever
\* page it was found.
C25_OnlyQualifyingLinksFetched ==
  \A i \in LinkedGets :
    \/ isProfessionalLink(netLog[i].URL)
    \/ /\ cfg.enableInternalLinks
       /\ netLog[i].URL.Host = RootURL.Host
       /\ isUrlAllowed(netLog[i].URL)
       /\ ~HasSkipPattern(netLog[i].URL)

\* ---- C26
\* the GETs of pages whose link was found on a linked page
NestedGets == {i \in LinkedGets : netLog[i].parent # RootURL}

\* C26: when the crawl returns, every page that was fetched with success
\* through a link of a linked page is in the LinkedContent map of the root
\* record under the URL it was requested with, as a record of that URL; a
\* linked record has no map of linked pages and its FirstLevelLinks is empty.
C26_NestedPagesInRootMap ==
  \A r \in Requests :
    /\ FreshCrawlDone(r) =>
         \A i \in NestedGets :
           netLog[i].ok =>
             /\ netLog[i].URL \in DOMAIN content[r].LinkedContent
             /\ content[r].LinkedContent[netLog[i].URL].URL = netLog[i].URL
    /\ content[r] # Nil =>
         \A k \in DOMAIN content[r].LinkedContent :
           /\ "LinkedContent" \notin DOMAIN content[r].LinkedContent[k]
           /\ content[r].LinkedContent[k].FirstLevelLinks = <<>>

\* the chain was crawled to depth 3: the page two links from the root is in
\* the root's map
C26_Witness ==
  /\ web = GChain
  /\ FreshCrawlDone(1)
  /\ \E i \in NestedGets : netLog[i].URL = LinkedIn /\ netLog[i].ok /\ netLog[i].depth = 2
  /\ LinkedIn \in DOMAIN content[1].LinkedContent
  /\ content[1].LinkedContent[LinkedIn].Title = "C"

\* C27: the step that requests the root page leaves scrapedPagesCount as
\* it is; the counter goes up by one in the step that lets a linked page
\* through to its GET, whether the GET then succeeds or fails, and in no
\* other step (the session reset sets it to 0); it is the number of
\* linked-page GETs of the session.
C27_CounterCountsLinkedFetches ==
  /\ [][\A r \in Requests :
          pc[r] = "fetchMain" => scrapedPagesCount' = scrapedPagesCount]_vars
  /\ [][\A r \in Requests :
          pc[r] = "links" /\ pc'[r] = "fetchLinked"
            => scrapedPagesCount' = scrapedPagesCount + 1]_vars
  /\ [][scrapedPagesCount' # scrapedPagesCount
          => \E r \in Requests :
               \/ pc[r] = "links" /\ pc'[r] = "fetchLinked"
                    /\ scrapedPagesCount' = scrapedPagesCount + 1
               \/ pc[r] = "idle" /\ pc'[r] = "scrape" /\ scrapedPagesCount' = 0]_vars
  /\ [](scrapedPagesCount =
          Cardinality(LinkedGets) + Cardinality({r \in Requests : pc[r] = "fetchLinked"}))

\* a crawl has returned after the root page and two linked pages were
\* requested, one of them without success: the counter is at 2
C27_Witness ==
  /\ FreshCrawlDone(1)
  /\ Len(netLog) = 3
  /\ scrapedPagesCount = 2
  /\ \E i, j \in LinkedGets : netLog[i].ok /\ ~netLog[j].ok

\* ---- C28
\* the link loop that a page's links are gone through with
LoopOf(parent) ==
  Frame(IF parent = RootURL THEN "root" ELSE "linked", parent, 0,
        ExtractLinks(web[PageKey(parent)]), Nil)

\* the places of a URL among the links of a page
LinkPlaces(parent, u) ==
  {i \in DOMAIN LoopOf(parent).links : FullURL(LoopOf(parent), LoopOf(parent).links[i]) = u}

\* the audit entries of a linked page
LinkedAudits(u) ==
  {k \in DOMAIN scrapedUrls : scrapedUrls[k].URL = u /\ scrapedUrls[k].Type = "linked"}

\* the entries that record the success of a page
SuccessAudits(u) ==
  {k \in DOMAIN scrapedUrls : scrapedUrls[k].URL = u /\ scrapedUrls[k].Success}

\* C28: a step leaves the audit log as it is, appends entries to it or is
\* the session reset; the pages requested from one page are requested in the
\* order of its links and their audit entries are in that order; the entry
\* for the success of a page comes after the entries of the pages requested
\* from it; a crawl that returns a record has the root's main entry last.
C28_AuditLogOrdered ==
  /\ [][\/ /\ Len(scrapedUrls') >= Len(scrapedUrls)
           /\ SubSeq(scrapedUrls', 1, Len(scrapedUrls)) = scrapedUrls
        \/ \E r \in Requests :
             pc[r] = "idle" /\ pc'[r] = "scrape" /\ scrapedUrls' = <<>>]_vars
  /\ [](\A a, b \in LinkedGets :
          a < b /\ netLog[a].parent = netLog[b].parent
            => /\ \E i \in LinkPlaces(netLog[a].parent, netLog[a].URL) :
                    \E j \in LinkPlaces(netLog[b].parent, netLog[b].URL) : i < j
               /\ \A k \in LinkedAudits(netLog[a].URL) :
                    \A m \in LinkedAudits(netLog[b].URL) : k < m)
  /\ [](\A b \in LinkedGets :
          \A k \in LinkedAudits(netLog[b].URL) :
            \A m \in SuccessAudits(netLog[b].parent) : k < m)
  /\ [](\A r \in Requests :
          pc[r] = "store"
            => /\ Last(scrapedUrls).URL = RootURL
               /\ Last(scrapedUrls).Type = "main"
               /\ Last(scrapedUrls).Success)

\* the chain was crawled to depth 3: the entry of the page two links from
\* the root, the entry of the page linked from the root, the root's entry
C28_Witness ==
  /\ web = GChain
  /\ FreshCrawlDone(1)
  /\ Len(scrapedUrls) = 3
  /\ scrapedUrls[1].URL = LinkedIn
  /\ scrapedUrls[2].URL = GitHub
  /\ scrapedUrls[3].URL = RootURL
  /\ \A k \in 1..3 : scrapedUrls[k].Success

\* ---- C29
\* the link a link loop is at is cut off by the depth limit or the page
\* budget, or was visited before
CutOff(f) ==
  LET fullURL == FullURL(f, f.links[f.i])
  IN \/ f.depth + 1 >= cfg.maxScrapingDepth
     \/ scrapedPagesCount >= cfg.maxPagesPerSession
     \/ normalizeURL(fullURL) \in visitedUrls

\* C29: the turn of a link loop for a link that the depth limit, the page
\* budget or the visited set excludes appends no audit entry, sends no GET
\* and leaves the visited set, scrapedPagesCount and the record as they
\* were, and the loop goes on; every failed entry of a linked page in the
\* log is that of a GET that failed or of a URL the allow patterns refuse.
C29_CutOffIsSilent ==
  /\ [][\A r \in Requests :
          pc[r] = "links" /\ Top(r).i <= Len(Top(r).links) /\ CutOff(Top(r))
            => /\ UNCHANGED <<scrapedUrls, netLog, visitedUrls, scrapedPagesCount, content>>
               /\ pc'[r] = "links"
               /\ Len(stack'[r]) = Len(stack[r])
               /\ Last(stack'[r]).i = Top(r).i + 1]_vars
  /\ [](\A k \in DOMAIN scrapedUrls :
          scrapedUrls[k].Type = "linked" /\ ~scrapedUrls[k].Success
            => \/ \E i \in LinkedGets : netLog[i].URL = scrapedUrls[k].URL /\ ~netLog[i].ok
               \/ ~isUrlAllowed(scrapedUrls[k].URL))

\* with a budget of two pages and a depth of 2 the crawl of the root page
\* with six links has returned: a link was passed over as visited, the
\* later ones for the budget, and the log has the three successes only
C29_Witness ==
  /\ web = GFan
  /\ FreshCrawlDone(1)
  /\ cfg.maxPagesPerSession = 2
  /\ cfg.maxScrapingDepth = 2
  /\ Cardinality(QualifyingRootLinks) >= 4
  /\ Fetched(GitHubSlash) /\ Fetched(LinkedIn)
  /\ Len(netLog) = 3
  /\ Len(scrapedUrls) = 3
  /\ \A k \in DOMAIN scrapedUrls : scrapedUrls[k].Success
  /\ Cardinality(visitedUrls) = 3
  /\ scrapedPagesCount = 2

\* ---- C30
ContentTypes == {"project", "professional", "blog", "technical", "general"}

\* C30: the content type of a URL is "project" when the URL in lower case
\* contains github.com or gitlab.com; failing that "professional" when it
\* contains linkedin.com; failing that "blog" when it contains medium.com,
\* dev.to or blog; failing that "technical" when it contains
\* stackoverflow.com; failing that "general"; it is one of these five.
C30_ContentTypePriority ==
  \A k \in DOMAIN scrapedUrls :
    LET l == ToLower(scrapedUrls[k].URL)
        t == scrapedUrls[k].ContentType
        project == Contains(l, "github.com") \/ Contains(l, "gitlab.com")
        professional == Contains(l, "linkedin.com")
        blog == Contains(l, "medium.com") \/ Contains(l, "dev.to") \/ Contains(l, "blog")
        technical == Contains(l, "stackoverflow.com")
    IN /\ t \in ContentTypes
       /\ project => t = "project"
       /\ ~project /\ professional => t = "professional"
       /\ ~project /\ ~professional /\ blog => t = "blog"
       /\ ~project /\ ~professional /\ ~blog /\ technical => t = "technical"
       /\ ~project /\ ~professional /\ ~blog /\ ~technical => t = "general"

\* a LinkedIn URL with github.com in its path was classified as a project
\* and a Stack Overflow URL with a blog in its path as a blog
C30_Witness ==
  /\ Len(scrapedUrls) = 2
  /\ scrapedUrls[1].URL = URL("https", "linkedin.com", <<"github.com">>)
  /\ scrapedUrls[1].ContentType = "project"
  /\ scrapedUrls[2].URL = URL("https", "stackoverflow.com", <<"my-blog">>)
  /\ scrapedUrls[2].ContentType = "blog"

\* ------------------------------------------------------------------ C31
Min(a, b) == IF a < b THEN a ELSE b

Max(a, b) == IF a > b THEN a ELSE b

\* CACHE_DURATION_HOURS is a whole number of hours of at least one
WholeHours == env.CACHE_DURATION_HOURS.kind = "int" /\ env.CACHE_DURATION_HOURS.n >= 1

\* C31: for every configured cache duration of a whole number of hours of
\* at least one, the memory-cache duration is max(15 min, min(1 h,
\* cacheDuration/24)); it is between 15 minutes and 1 hour, never longer
\* than the disk cache duration, and 1 hour for the default duration of 24
\* hours
C31_MemoryCacheDuration ==
  cfg # Nil =>
    /\ WholeHours =>
          /\ cfg.cacheDuration = env.CACHE_DURATION_HOURS.n * Hour
          /\ cfg.memoryCacheDuration =
                Max(15 * Minute, Min(1 * Hour, (env.CACHE_DURATION_HOURS.n * Hour) \div 24))
          /\ (env.CACHE_DURATION_HOURS.n * Hour) % 24 = 0
          /\ cfg.memoryCacheDuration >= 15 * Minute
          /\ cfg.memoryCacheDuration <= 1 * Hour
          /\ cfg.memoryCacheDuration <= cfg.cacheDuration
    /\ env.CACHE_DURATION_HOURS.kind = "unset" =>
          /\ cfg.cacheDuration = 24 * Hour
          /\ cfg.memoryCacheDuration = 1 * Hour

\* the scraper was built with a cache duration of three hours, which the
\* floor of 15 minutes decides
C31_Witness ==
  /\ cfg # Nil
  /\ env.CACHE_DURATION_HOURS = EnvInt(3)
  /\ cfg.cacheDuration = 3 * Hour
  /\ cfg.memoryCacheDuration = 15 * Minute

\* ------------------------------------------------------------------ C32
\* the value of [1,10] nearest to n
Clamp(n) == Max(1, Min(10, n))

\* C32: the depth bound in force is in [1,10]: a value that is not set
\* gives 2, a configured value in [1,10] is used as it is and a configured
\* value outside the range gives the nearest bound (0 gives 1, 15 gives 10)
C32_DepthClamped ==
  cfg # Nil =>
    /\ cfg.maxScrapingDepth \in 1..10
    /\ env.MAX_SCRAPING_DEPTH.kind = "unset" => cfg.maxScrapingDepth = 2
    /\ env.MAX_SCRAPING_DEPTH.kind = "int" =>
          cfg.maxScrapingDepth = Clamp(env.MAX_SCRAPING_DEPTH.n)

\* ------------------------------------------------------------------ C33
\* the page at u gets no summary: the service is away, the call fails or
\* the page has no text
Unsummarized(u) ==
  \/ web[PageKey(u)].Summarize # "ok"
  \/ web[PageKey(u)].Text = <<>>

\* the places in a text where a character begins
CharStarts(text) == {i \in DOMAIN text : text[i] # "e2"}

\* the first n characters of a text of more than n characters
FirstChars(text, n) ==
  LET next == CHOOSE i \in CharStarts(text) :
                Cardinality({j \in CharStarts(text) : j < i}) = n
  IN SubSeq(text, 1, next - 1)

\* the text of the page at u if it has no more than maxContentLength
\* characters, its first maxContentLength characters and "..." otherwise
CutText(u) ==
  LET fullText == web[PageKey(u)].Text
  IN IF Cardinality(CharStarts(fullText)) <= cfg.maxContentLength
       THEN fullText
       ELSE FirstChars(fullText, cfg.maxContentLength) \o <<".", ".", ".">>

\* the records of the root page the program holds
RootRecords ==
  {content[r] : r \in {q \in Handlers : content[q] # Nil}}
  \cup (IF websiteData # Nil THEN {websiteData} ELSE {})
  \cup {cache[u] : u \in DOMAIN cache}
  \cup {disk[d].Content : d \in {e \in DOMAIN disk : disk[e] # Corrupt}}

\* the records of linked pages the program holds: in the map of a root
\* record, or returned to a link loop that is still running
LinkedRecords ==
  UNION {{rec.LinkedContent[u] : u \in DOMAIN rec.LinkedContent} : rec \in RootRecords}
  \cup UNION {{stack[r][k].lc : k \in {j \in DOMAIN stack[r] : stack[r][j].lc # Nil}} :
               r \in Handlers}

\* the texts of the pages that got no summary are the cut texts
TextsCut ==
  /\ \A rec \in RootRecords :
       Unsummarized(RootURL) =>
         /\ rec.Text = CutText(RootURL)
         /\ Cardinality(CharStarts(rec.Text)) <= cfg.maxContentLength + 3
  /\ \A lc \in LinkedRecords :
       Unsummarized(lc.URL) =>
         /\ lc.Text = CutText(lc.URL)
         /\ Cardinality(CharStarts(lc.Text)) <= cfg.maxContentLength + 3

\* request r gets the page of a GET whose text is given no summary
GetsUnsummarized(r) ==
  /\ pc[r] \in {"fetchMain", "fetchLinked"}
  /\ Len(netLog') = Len(netLog) + 1
  /\ Last(netLog').ok
  /\ Unsummarized(Last(netLog').URL)

\* C33: a failure of the summarization call never fails the crawl of a
\* page: the text of the page is then the extracted text if it is no
\* longer than maxContentLength, and otherwise its first maxContentLength
\* characters followed by "..."; the same holds when the summarizer is not
\* available, so a stored text that is no summary is never longer than
\* maxContentLength + 3
C33_SummaryFailureTruncates ==
  [][/\ TextsCut'
     /\ \A r \in Requests :
          GetsUnsummarized(r) =>
            /\ pc'[r] # "failed"
            /\ Len(scrapedUrls') > Len(scrapedUrls) => Last(scrapedUrls').Success]_vars

\* ------------------------------------------------------------------ C34
\* the audit entries of linked pages that the allow filter did not reject
AttemptAudits ==
  {i \in DOMAIN scrapedUrls :
     scrapedUrls[i].Type = "linked" /\ scrapedUrls[i].Error # "not allowed"}

MainAudits == {i \in DOMAIN scrapedUrls : scrapedUrls[i].Type = "main"}

\* the fetches of linked pages request r has begun and not ended: the GET
\* it is about to make and the pages whose link loops it is in
OpenFetches(r) ==
  Cardinality({k \in DOMAIN stack[r] : stack[r][k].kind = "linked"})
    + (IF pc[r] = "fetchLinked" THEN 1 ELSE 0)

\* no call of ScrapeWebsite is running
NoCrawlStep == \A r \in Handlers : pc[r] \in {"idle", "store", "failed"}

\* C34: every fetch attempt of a linked page ends with exactly one audit
\* entry of type "linked" for its URL, failed or successful: whenever no
\* crawl step is in progress the number of "linked" entries other than the
\* rejections of the allow filter is scrapedPagesCount, and every crawl of
\* the root that the limits do not cut off appends exactly one entry of
\* type "main"
C34_OneAuditPerAttempt ==
  /\ \A r \in Requests :
       /\ Cardinality(AttemptAudits) + OpenFetches(r) = scrapedPagesCount
       /\ pc[r] = "store" => Cardinality(MainAudits) = 1
       /\ pc[r] = "failed" =>
            Cardinality(MainAudits) =
              IF ScrapePageGate(RootURL, 0, "main") = "limits" THEN 0 ELSE 1
  /\ Cardinality(MainAudits) <= 1
  /\ NoCrawlStep =>
       /\ Cardinality(AttemptAudits) = scrapedPagesCount
       /\ \A i \in LinkedGets :
            Cardinality({j \in AttemptAudits : scrapedUrls[j].URL = netLog[i].URL}) = 1

\* a crawl has ended with three linked pages tried, one of them failed,
\* and one entry for the root
C34_Witness ==
  /\ NoCrawlStep
  /\ scrapedPagesCount = 3
  /\ Cardinality(AttemptAudits) = 3
  /\ \E i \in AttemptAudits : ~scrapedUrls[i].Success
  /\ \E i \in AttemptAudits : scrapedUrls[i].Success
  /\ Cardinality(MainAudits) = 1

\* ------------------------------------------------------------------ C35
\* the last crawl fetched the root page, returned its record to the chatbot
\* and wrote it to disk
LastCrawlSaved ==
  /\ websiteData # Nil
  /\ websiteData.LastUpdated = lastDataFetch
  /\ RootDir \in DOMAIN disk
  /\ disk[RootDir] # Corrupt
  /\ disk[RootDir].SavedAt = lastDataFetch

\* request r makes the first step of a crawl that follows the last one
\* within the cache duration
CrawlsAgain(r) ==
  /\ pc[r] = "scrape"
  /\ pc'[r] # "scrape"
  /\ LastCrawlSaved
  /\ ~cfg.refreshContent
  /\ now - lastDataFetch < cfg.cacheDuration

\* C35: after a crawl of the root that fetched the page and returned, with
\* the write to disk done and the refresh override off, a crawl of the same
\* URL that follows at once makes no GET and returns a record with the same
\* title, text, content hash and linked pages
C35_RecrawlFromDisk ==
  [][\A r \in Requests :
       CrawlsAgain(r) =>
         /\ pc'[r] = "store"
         /\ netLog' = netLog
         /\ content'[r].Title = websiteData.Title
         /\ content'[r].Text = websiteData.Text
         /\ content'[r].ContentHash = websiteData.ContentHash
         /\ content'[r].LinkedContent = websiteData.LinkedContent]_vars

\* ------------------------------------------------------------------ C36
\* handleChat takes a message for request r in this step
MessageArrives(r) == pc[r] = "idle" /\ served' = served + 1

C37_CounterAndVisitedAtomic ==
  /\ scrapedPagesCount <= cfg.maxPagesPerSession
  /\ \A i, j \in LinkedGets :
       normalizeURL(netLog[i].URL) = normalizeURL(netLog[j].URL) => i = j

\* ------------------------------------------------------------------ C38
\* request r gets the record of the root from the disk in this step
DiskHit(r) ==
  /\ pc[r] = "scrape"
  /\ pc'[r] = "store"
  /\ Last(scrapedUrls').ContentType = "disk_cached"

\* what generateSafeDirectoryName reads of a URL: the host without a
\* leading "www." and the path with the query, "/" being the same as none
DirectoryKey(u) ==
  <<TrimWww(u.Host), IF u.Path = <<"">> THEN <<>> ELSE u.Path, u.RawQuery>>

====
